---- MODULE Spec2Model ----
(***************************************************************************)
(* PrimeNG 17 -> 18 migration schematics (primeng-18-migrate).             *)
(*                                                                         *)
(* File content is a sequence of chunks.  A chunk is a piece of text that  *)
(* the regular expressions of the migrations never split: every literal of *)
(* a pattern is a concatenation of whole chunks, and the vocabularies are  *)
(* chosen so that a literal can only occur aligned on chunk borders.  The  *)
(* character classes a pattern looks at (\b, \s, [^>], [^}], [^"]) are     *)
(* given per chunk by the sets below.  "p-highlighted" is the chunks       *)
(* "p-", "highlight", "ed"; "<p-dropdown-item" is "<p-dropdown", "-item".  *)
(***************************************************************************)
EXTENDS Integers, Sequences, FiniteSets, TLC

VARIABLES
  tree,        \* the schematic Tree: path -> content (chunk sequence) or NoFile
  prevTree,    \* the Tree the running operation started from
  lastRule,    \* the rule applied last ("none" at start)
  pc,          \* position of the running operation
  migration,   \* the operation that runs
  options,     \* its options (MigrationOptions, Schema)
  answers,     \* what the operator answers to the prompts
  git,         \* the git repository: working directory state, failing
               \* commands, the commands executed, the commits created
  disk,        \* the files of the working directory
  hadUnstagedChanges,  \* the closure variable of a component migration
  timer,       \* the commit callback handed to setTimeout is pending
  result,      \* analyzeFilesForMigration: the files visited, the result
  predicate,   \* analyzeFilesForMigration: the predicate passed in
  bash,        \* the bash script: call stack, functions entered, menus
               \* shown, exit status, the last find_and_replace call
  applied      \* the text rules applied to the tree so far, when the rules
               \* run in an order of their own

vars ==
  <<tree, prevTree, lastRule, pc, migration, options, answers, git, disk,
    hadUnstagedChanges, timer, result, predicate, bash, applied>>

\* a path without a file: of a source file, of a JSON file
NoFile == <<"NoFile">>
NoJson == [missing |-> TRUE]
\* a JSON file whose content JSON.parse rejects
BadJson == [unparsable |-> TRUE]
\* the bash script does not run
NoCall ==
  [fn |-> "none", at |-> 0, prompted |-> FALSE, reply |-> "", logLen |-> 0]
NoBash ==
  [stack |-> <<>>, steps |-> <<>>, menus |-> 0, status |-> "none",
   last |-> NoCall, all |-> -1, completed |-> FALSE]

(***************************************************************************)
(* Bounds                                                                  *)
(***************************************************************************)
MaxLen == 4        \* chunks in a source file
MaxProjects == 1   \* projects in angular.json
MaxStyles == 2     \* entries in a styles array

(***************************************************************************)
(* Paths and String.prototype.endsWith on them                             *)
(***************************************************************************)
TsPath == "/src/app.component.ts"
HtmlPath == "/src/app.component.html"
ScssPath == "/src/styles.scss"
CssPath == "/src/theme.css"
MdPath == "/README.md"
packageJsonPath == "/package.json"
angularJsonPath == "/angular.json"
TextPaths == {TsPath, HtmlPath, ScssPath, CssPath, MdPath}
Paths == TextPaths \cup {packageJsonPath, angularJsonPath}

endsWith(filePath, ext) ==
  CASE ext = ".ts" -> filePath = TsPath
    [] ext = ".html" -> filePath = HtmlPath
    [] ext = ".scss" -> filePath = ScssPath
    [] ext = ".css" -> filePath = CssPath
    [] OTHER -> FALSE

(***************************************************************************)
(* The HTML comments migrateSidebarToDialog writes, one chunk each         *)
(***************************************************************************)
\* the comment the bash script writes in place of a p-defer element
NoteDefer ==
  "<!-- p-defer is removed in PrimeNG v18. Consider using Angular @defer instead -->"

NoteChips ==
  "<!-- Note: This component was migrated from Chips to AutoComplete. Please review the properties and behavior. -->"

\* the notes of the callback of migrateChipsToAutoComplete
NoteChipsField ==
  "<!-- Note: 'field' property in Chips maps to 'field' in AutoComplete, but behavior may differ. -->"
NoteChipsPlaceholder ==
  "<!-- Note: 'placeholder' property works the same in AutoComplete. -->"
NoteChipsDisabled ==
  "<!-- Note: 'disabled' property works the same in AutoComplete. -->"
NoteChipsStyle ==
  "<!-- Note: 'style' property works the same in AutoComplete. -->"
NoteChipsStyleClass ==
  "<!-- Note: 'styleClass' property works the same in AutoComplete. -->"
NoteChipsOnAdd ==
  "<!-- Note: 'onAdd' event in Chips maps to 'onSelect' in AutoComplete. -->"
NoteChipsOnRemove ==
  "<!-- Note: 'onRemove' event in Chips maps to 'onUnselect' in AutoComplete. -->"

\* the if-chain of the callback of migrateChipsToAutoComplete, in order:
\* the texts props.includes looks for (as the chunks that hold them), the
\* event the branch renames, the note it writes
chipsProperties ==
  << [opens |-> {"field=\"", "[field]=\""}, rename |-> <<>>,
      note |-> NoteChipsField],
     [opens |-> {"placeholder=\"", "[placeholder]=\""}, rename |-> <<>>,
      note |-> NoteChipsPlaceholder],
     [opens |-> {"disabled=\"", "[disabled]=\""}, rename |-> <<>>,
      note |-> NoteChipsDisabled],
     [opens |-> {"style=\"", "[style]=\""}, rename |-> <<>>,
      note |-> NoteChipsStyle],
     [opens |-> {"styleClass=\"", "[styleClass]=\""}, rename |-> <<>>,
      note |-> NoteChipsStyleClass],
     [opens |-> {"(onAdd)=\""}, rename |-> <<"(onAdd)=\"", "(onSelect)=\"">>,
      note |-> NoteChipsOnAdd],
     [opens |-> {"(onRemove)=\""},
      rename |-> <<"(onRemove)=\"", "(onUnselect)=\"">>,
      note |-> NoteChipsOnRemove] >>
ChipsNotes ==
  {NoteChipsField, NoteChipsPlaceholder, NoteChipsDisabled, NoteChipsStyle,
   NoteChipsStyleClass, NoteChipsOnAdd, NoteChipsOnRemove}
\* the attribute names of a p-chips or p-autoComplete tag, each with its ="
ChipsOpens ==
  {"field=\"", "[field]=\"", "placeholder=\"", "[placeholder]=\"",
   "disabled=\"", "[disabled]=\"", "style=\"", "[style]=\"", "styleClass=\"",
   "[styleClass]=\"", "(onAdd)=\"", "(onRemove)=\"", "(onSelect)=\"",
   "(onUnselect)=\"", "[multiple]=\"", "name=\""}

NoteSize ==
  "<!-- Note: size property has been removed from Drawer, use responsive class utility instead -->"

NoteDialog ==
  "<!-- Note: This component was migrated from Sidebar to Dialog. Please review the properties and behavior. -->"

\* the notes migrateSidebarToDialog writes behind a property
NoteDialogPosition ==
  " <!-- Note: Dialog position has more options than Sidebar: left, right, top, bottom, topleft, topright, bottomleft, bottomright -->"
NoteDialogFullScreen ==
  " <!-- Note: fullScreen property has been replaced with maximizable -->"
NoteDialogBlockScroll ==
  " <!-- Note: blockScroll works the same in Dialog -->"
NoteDialogDismissible ==
  " <!-- Note: dismissible works the same in Dialog -->"
NoteDialogShowCloseIcon ==
  " <!-- Note: showCloseIcon works the same in Dialog -->"
NoteDialogBaseZIndex ==
  " <!-- Note: baseZIndex works the same in Dialog -->"
NoteDialogAutoZIndex ==
  " <!-- Note: autoZIndex works the same in Dialog -->"
NoteDialogModal ==
  " <!-- Note: modal works the same in Dialog -->"
NoteDialogCloseOnEscape ==
  " <!-- Note: closeOnEscape works the same in Dialog -->"
NoteDialogAppendTo ==
  " <!-- Note: appendTo works the same in Dialog -->"

\* the property patterns of migrateSidebarToDialog: \[name\]="([^"]*)" is
\* rewritten to [new]="$1" followed by the note
sidebarDialogProperties ==
  << [open |-> "[position]=\"", new |-> "[position]=\"",
      note |-> NoteDialogPosition],
     [open |-> "[fullScreen]=\"", new |-> "[maximizable]=\"",
      note |-> NoteDialogFullScreen],
     [open |-> "[blockScroll]=\"", new |-> "[blockScroll]=\"",
      note |-> NoteDialogBlockScroll],
     [open |-> "[dismissible]=\"", new |-> "[dismissible]=\"",
      note |-> NoteDialogDismissible],
     [open |-> "[showCloseIcon]=\"", new |-> "[showCloseIcon]=\"",
      note |-> NoteDialogShowCloseIcon],
     [open |-> "[baseZIndex]=\"", new |-> "[baseZIndex]=\"",
      note |-> NoteDialogBaseZIndex],
     [open |-> "[autoZIndex]=\"", new |-> "[autoZIndex]=\"",
      note |-> NoteDialogAutoZIndex],
     [open |-> "[modal]=\"", new |-> "[modal]=\"",
      note |-> NoteDialogModal],
     [open |-> "[closeOnEscape]=\"", new |-> "[closeOnEscape]=\"",
      note |-> NoteDialogCloseOnEscape],
     [open |-> "[appendTo]=\"", new |-> "[appendTo]=\"",
      note |-> NoteDialogAppendTo] >>

PropertyNotes ==
  {NoteDialogPosition, NoteDialogFullScreen, NoteDialogBlockScroll,
   NoteDialogDismissible, NoteDialogShowCloseIcon, NoteDialogBaseZIndex,
   NoteDialogAutoZIndex, NoteDialogModal, NoteDialogCloseOnEscape,
   NoteDialogAppendTo}
PropertyOpens ==
  {"[appendTo]=\"", "[autoZIndex]=\"", "[baseZIndex]=\"", "[blockScroll]=\"",
   "[closeOnEscape]=\"", "[dismissible]=\"", "[fullScreen]=\"",
   "[maximizable]=\"", "[modal]=\"", "[position]=\"", "[showCloseIcon]=\""}

(***************************************************************************)
(* Character classes of chunks                                             *)
(***************************************************************************)
\* chunks whose first character is a word character [A-Za-z0-9_]
WordStartChunks ==
  {"field=\"", "placeholder=\"", "disabled=\"", "style=\"", "styleClass=\"",
   "name=\"", "large", "large'", "left", "size=\"", "data-size=\"", "position=\"",
   "p-", "link", "fluid", "highlight", "component", "inputtext", "ed",
   "element", "input", "class=\"", "my-button",
   "import { ", "CalendarModule", "DatePickerModule", "Message",
   "MessageService", "ToastMessageOptions", "SidebarModule", "DialogModule",
   "modal", "closeOnEscape", "true", "false", "modal=\"",
   "closeOnEscape=\"", "showTransitionOptions=\"",
   "hideTransitionOptions=\"", "pAnimate", "pDefer", "OnScroll", "x",
   "import(", "p-calendar", "p-datepicker", "p-sidebar", "p-dialog",
   "DropdownModule", "InputSwitchModule", "OverlayPanelModule",
   "SelectModule", "ToggleSwitchModule", "PopoverModule", "DrawerModule",
   "p-calendar-panel", "p-datepicker-panel", "p-sidebar-panel",
   "p-dialog-panel", "selector: 'p-calendar'", "selector: \"p-calendar\"",
   "selector: 'p-datepicker'", "selector: \"p-datepicker\"",
   "selector: 'p-sidebar'", "selector: \"p-sidebar\"",
   "selector: 'p-dialog'", "selector: \"p-dialog\"",
   "showHeader=\"", "header=\"", "ToastMessageOptionsService", "as "}
\* chunks whose last character is a word character
WordEndChunks ==
  {"link", "fluid", "highlight", "component", "inputtext", "ed",
   "element", "input", "-active", "my-button",
   "CalendarModule", "DatePickerModule", "Message", "MessageService",
   "ToastMessageOptions", "SidebarModule", "DialogModule",
   "modal", "closeOnEscape", "true", "false", "pAnimate", "pDefer",
   "OnScroll", "x", "-item", ".12s",
   "<p-calendar", "<p-dropdown", "<p-inputSwitch", "<p-overlayPanel",
   "<p-sidebar", "<p-datepicker", "<p-select", "<p-toggleSwitch",
   "<p-popover", "<p-drawer", "<p-dialog",
   "<p-selectButton", "<p-selectbutton", "<p-defer",
   "p-calendar", "p-datepicker", "p-sidebar", "p-dialog",
   ".p-calendar", ".p-datepicker", ".p-sidebar", ".p-dialog",
   "DropdownModule", "InputSwitchModule", "OverlayPanelModule",
   "SelectModule", "ToggleSwitchModule", "PopoverModule", "DrawerModule",
   "p-calendar-panel", "p-datepicker-panel", "p-sidebar-panel",
   "p-dialog-panel", ".p-dialog-titlebar", ".p-dialog-header",
   "ToastMessageOptionsService", "large", "left", "<div", "<p-chips",
   "<p-autoComplete"}

WordStart(c) == c \in WordStartChunks
WordEnd(c) == c \in WordEndChunks

\* chunks that are white space only, and chunks whose first character is
\* white space
SpaceChunks == {" ", "  "}
SpaceStartChunks == SpaceChunks \cup
  {" [style]=\"x\"", " } from ", " }  from  ", " = ",
   " my-button\"", " { width: 100%; }"} \cup PropertyNotes
SpaceOnly(c) == c \in SpaceChunks
SpaceStart(c) == c \in SpaceStartChunks

\* chunks that contain '>': it is their last character and their only '>'
GtEndChunks ==
  {">", "</p-calendar>", "</p-dropdown>", "</p-inputSwitch>",
   "</p-overlayPanel>", "</p-sidebar>", "</p-datepicker>", "</p-select>",
   "</p-toggleSwitch>", "</p-popover>", "</p-drawer>", "</p-dialog>",
   "</p-selectButton>", "</p-selectbutton>", "</p-defer>", NoteDefer,
   NoteDialog, NoteSize, NoteChips, "</p-chips>", "</p-autoComplete>"}
    \cup PropertyNotes \cup ChipsNotes
GtEnd(c) == c \in GtEndChunks

\* chunks that contain '}'
RBraceChunks == {" } from ", " }  from  ", " { width: 100%; }"}
HasRBrace(c) == c \in RBraceChunks

\* chunks that contain '"': it is their last character and their only '"'
QuoteEndChunks ==
  {"\"", "class=\"", " my-button\"", "[modal]=\"", "modal=\"",
   "[closeOnEscape]=\"", "closeOnEscape=\"",
   "[showTransitionOptions]=\"", "showTransitionOptions=\"",
   "[hideTransitionOptions]=\"", "hideTransitionOptions=\"",
   "[position]=\"", "[showHeader]=\"", "showHeader=\"", "[header]=\"",
   "header=\"", "[size]=\"", "size=\"", "data-size=\"", "position=\""}
    \cup PropertyOpens \cup ChipsOpens
QuoteEnd(c) == c \in QuoteEndChunks
\* chunks of a template that contain ' or ": the text of the chunk that
\* follows its first quote character
AfterFirstQuote ==
  [c \in QuoteEndChunks |-> <<>>]
    @@ ("'large'" :> <<"large'">>) @@ ("large'" :> <<>>)
AnyQuote(c) == c \in DOMAIN AfterFirstQuote

Min(S) == CHOOSE x \in S : \A y \in S : x <= y
Max(S) == CHOOSE x \in S : \A y \in S : x >= y

(***************************************************************************)
(* Regular expression matching on chunk sequences                          *)
(***************************************************************************)
\* the literal lit occurs in s starting at chunk i
LitAt(s, i, lit) ==
  /\ i >= 1
  /\ i + Len(lit) - 1 <= Len(s)
  /\ \A k \in 1..Len(lit) : s[i + k - 1] = lit[k]

\* \b holds in the gap before chunk i (i = Len(s)+1: at the end)
Boundary(s, i) ==
  (i > 1 /\ WordEnd(s[i - 1])) # (i <= Len(s) /\ WordStart(s[i]))

\* index of the first chunk from j on that contains '>', '}', '"'; 0: none
FirstGt(s, j) ==
  LET J == {k \in j..Len(s) : GtEnd(s[k])} IN IF J = {} THEN 0 ELSE Min(J)
FirstRBrace(s, j) ==
  LET J == {k \in j..Len(s) : HasRBrace(s[k])} IN IF J = {} THEN 0 ELSE Min(J)
FirstQuote(s, j) ==
  LET J == {k \in j..Len(s) : QuoteEnd(s[k])} IN IF J = {} THEN 0 ELSE Min(J)
FirstAnyQuote(s, j) ==
  LET J == {k \in j..Len(s) : AnyQuote(s[k])} IN IF J = {} THEN 0 ELSE Min(J)
\* \s* from chunk j on: index of the first chunk that is not white space
SkipSpace(s, j) ==
  LET J == {k \in j..Len(s) : ~SpaceOnly(s[k])} IN
  IF J = {} THEN Len(s) + 1 ELSE Min(J)

\* `import\s+{` and `}\s+from\s+` (the white space next to the import clause
\* belongs to the clause); `} from ` and `from ` with one space
ImportOpenChunks == {"import { "}
ImportCloseChunks == {" } from ", " }  from  "}
FromChunks == {" } from "}
\* chunks that start with \s*= or \s*\. and chunks that start with ':'
DotEqStartChunks ==
  {" = ", "=", ".", ".12s", ".p-calendar", ".p-datepicker", ".p-sidebar",
   ".p-dialog", ".p-dialog-titlebar", ".p-dialog-header"}
ColonStartChunks == {":", ": "}

\* \bMessage\b at chunk k
MessageAt(s, k) ==
  k >= 1 /\ k <= Len(s) /\ s[k] = "Message"
  /\ Boundary(s, k) /\ Boundary(s, k + 1)
\* the import clause of `import {..} from <one of paths>` opening at chunk i
\* closes at chunk ClauseEnd (0: chunk i opens no such import)
ClauseEnd(s, i, close, paths) ==
  IF i >= 1 /\ i <= Len(s) /\ s[i] \in ImportOpenChunks
  THEN LET j == FirstRBrace(s, i + 1) IN
       IF j > 0 /\ s[j] \in close /\ j + 1 <= Len(s)
          /\ s[j + 1] \in paths
       THEN j ELSE 0
  ELSE 0
\* (?!\s*=|\s*\.|:) fails at chunk j
AssignOrMemberAhead(s, j) ==
  \/ (j <= Len(s) /\ s[j] \in ColonStartChunks)
  \/ LET k == SkipSpace(s, j) IN k <= Len(s) /\ s[k] \in DotEqStartChunks

\* chunks that start with the text import, chunks that contain the text
\* Message
ImportStartChunks == {"import { ", "import("}
MessageChunks ==
  {"Message", "MessageService", "ToastMessageOptions",
   "ToastMessageOptionsService"}
\* `import.*from 'old'` starting at chunk i: the chunks at which a match can
\* end (the pattern is greedy: the match ends at the last of them)
LineEnds(rx, s, i) ==
  IF s[i] \notin ImportStartChunks THEN {}
  ELSE {j \in (i + 2)..Len(s) :
          /\ s[j - 1] \in FromChunks
          /\ s[j] \in rx.paths
          /\ (rx.msg => \E k \in (i + 1)..(j - 2) : s[k] \in MessageChunks)}

\* Rx: a pattern is a record with a kind; MatchLen is the number of chunks
\* the match starting at chunk i consumes, 0 when the pattern does not
\* match there; Subst is the text String.replace writes for that match.
\*   word     \bold\b                            -> new
\*   lit      old                                -> new
\*   within   a literal inside one chunk         -> map[chunk]
\*   openTag  <old(\s[^>]*)?\/?>                 -> <new$1>
\*   import   import\s+{([^}]*)\}\s+from\s+['"]old['"]
\*                                               -> import {$1} from 'new'
\*   msgImport import\s+{([^}]*)\bMessage\b([^}]*)}\s+from\s+['"]primeng\/api['"]
\*   msgRef   \bMessage\b(?!\s*=|\s*\.|:)        -> ToastMessageOptions
\*   attr     open[^"]*"  (wb: \b in front)      -> new, value kept or set
\*   modalProp (\bmodal\s*:\s*)(true|false)      -> closeOnEscape: $2
\*   fromPath from ['"]old['"]                   -> from 'new'
\*   tagNote  (<old[^>]*?>)                      -> $1 note
\*   importLine import.*from 'old' (msg: import.*Message.*from 'old')
\*                                               -> new
\*   block    <tag[^>]*>.*</tag>                 -> new
\*   apiImport import {([^}]*)} from ['"]primeng\/api['"]
\*                       -> the clause with \bMessage\b renamed, when the
\*                          clause includes the text Message
\*   prefix   open followed by a text in map     -> open map[text]
\*   tagAttr  (<tag[^>]*?)>                      -> $1 attr >
\*   chipsProps (<p-autoComplete[^>]*?)([\s\n]*)(.*?)>
\*                                               -> what the callback returns
\*   sizeAttr \s+open['"][^'"]*['"]  (open: \[size\]= or size=)
\*                                               -> nothing
MatchLen(rx, s, i) ==
  CASE rx.kind = "word" ->
         IF LitAt(s, i, rx.old) /\ Boundary(s, i)
            /\ Boundary(s, i + Len(rx.old))
         THEN Len(rx.old) ELSE 0
    [] rx.kind = "lit" ->
         IF LitAt(s, i, rx.old) THEN Len(rx.old) ELSE 0
    [] rx.kind = "within" ->
         IF s[i] \in DOMAIN rx.map THEN 1 ELSE 0
    [] rx.kind = "openTag" ->
         IF s[i] # rx.tag \/ i + 1 > Len(s) THEN 0
         ELSE IF SpaceStart(s[i + 1]) /\ FirstGt(s, i + 1) > 0
              THEN FirstGt(s, i + 1) - i + 1
         ELSE IF s[i + 1] = ">" THEN 2
         ELSE IF i + 2 <= Len(s) /\ s[i + 1] = "/" /\ s[i + 2] = ">" THEN 3
         ELSE 0
    [] rx.kind = "import" ->
         IF ClauseEnd(s, i, rx.close, rx.paths) > 0
         THEN ClauseEnd(s, i, rx.close, rx.paths) - i + 2 ELSE 0
    [] rx.kind = "msgImport" ->
         LET j == ClauseEnd(s, i, ImportCloseChunks, rx.paths) IN
         IF j > 0 /\ \E k \in (i + 1)..(j - 1) : MessageAt(s, k)
         THEN j - i + 2 ELSE 0
    [] rx.kind = "msgRef" ->
         IF MessageAt(s, i) /\ ~AssignOrMemberAhead(s, i + 1) THEN 1 ELSE 0
    [] rx.kind = "attr" ->
         IF s[i] = rx.open /\ (rx.wb => Boundary(s, i))
            /\ FirstQuote(s, i + 1) > 0
         THEN FirstQuote(s, i + 1) - i + 1 ELSE 0
    [] rx.kind = "fromPath" ->
         IF s[i] \in FromChunks /\ i + 1 <= Len(s) /\ s[i + 1] \in rx.paths
         THEN 2 ELSE 0
    [] rx.kind = "tagNote" ->
         IF s[i] = rx.tag /\ FirstGt(s, i + 1) > 0
         THEN FirstGt(s, i + 1) - i + 1 ELSE 0
    [] rx.kind = "importLine" ->
         IF LineEnds(rx, s, i) # {} THEN Max(LineEnds(rx, s, i)) - i + 1
         ELSE 0
    [] rx.kind = "block" ->
         IF s[i] = rx.tag /\ FirstGt(s, i + 1) > 0
            /\ \E k \in (FirstGt(s, i + 1) + 1)..Len(s) : s[k] = rx.close
         THEN Max({k \in (FirstGt(s, i + 1) + 1)..Len(s) :
                     s[k] = rx.close}) - i + 1
         ELSE 0
    [] rx.kind = "apiImport" ->
         IF ClauseEnd(s, i, FromChunks, rx.paths) > 0
         THEN ClauseEnd(s, i, FromChunks, rx.paths) - i + 2 ELSE 0
    [] rx.kind = "prefix" ->
         IF s[i] = rx.open /\ i + 1 <= Len(s) /\ s[i + 1] \in DOMAIN rx.map
         THEN 2 ELSE 0
    [] rx.kind \in {"tagAttr", "chipsProps"} ->
         IF s[i] = rx.tag /\ FirstGt(s, i + 1) > 0
            /\ s[FirstGt(s, i + 1)] = ">"
         THEN FirstGt(s, i + 1) - i + 1 ELSE 0
    [] rx.kind = "sizeAttr" ->
         LET e == SkipSpace(s, i) IN
         IF e > i /\ e <= Len(s) /\ s[e] = rx.open
            /\ FirstAnyQuote(s, e + 1) > 0
         THEN FirstAnyQuote(s, e + 1) - i + 1 ELSE 0
    [] rx.kind = "modalProp" ->
         IF s[i] = "modal" /\ Boundary(s, i)
         THEN LET j == SkipSpace(s, i + 1) IN
              IF j <= Len(s) /\ s[j] \in ColonStartChunks
              THEN LET k == SkipSpace(s, j + 1) IN
                   IF k <= Len(s) /\ s[k] \in {"true", "false"}
                   THEN k - i + 1 ELSE 0
              ELSE 0
         ELSE 0
    [] OTHER -> 0

Subst(rx, s, i, n) ==
  CASE rx.kind = "word" -> rx.new
    [] rx.kind = "lit" -> rx.new
    [] rx.kind = "within" -> <<rx.map[s[i]]>>
    [] rx.kind = "openTag" ->
         IF SpaceStart(s[i + 1])
         THEN <<rx.newTag>> \o SubSeq(s, i + 1, i + n - 1)
         ELSE <<rx.newTag, ">">>
    [] rx.kind = "import" ->
         <<"import { ">> \o SubSeq(s, i + 1, i + n - 3)
           \o <<" } from ", rx.newPath>>
    [] rx.kind = "msgImport" ->
         LET k == Max({m \in (i + 1)..(i + n - 3) : MessageAt(s, m)}) IN
         <<"import { ">> \o SubSeq(s, i + 1, k - 1)
           \o <<"ToastMessageOptions">> \o SubSeq(s, k + 1, i + n - 3)
           \o <<" } from ", "'primeng/api'">>
    [] rx.kind = "msgRef" -> <<"ToastMessageOptions">>
    [] rx.kind = "attr" ->
         <<rx.newOpen>>
           \o (IF rx.keep THEN SubSeq(s, i + 1, i + n - 1) ELSE rx.value)
           \o rx.tail
    [] rx.kind = "fromPath" -> <<s[i], rx.newPath>>
    [] rx.kind = "tagNote" -> SubSeq(s, i, i + n - 1) \o <<rx.note>>
    [] rx.kind = "importLine" -> rx.new
    [] rx.kind = "block" -> rx.new
    [] rx.kind = "apiImport" ->
         IF \E k \in (i + 1)..(i + n - 3) : s[k] \in MessageChunks
         THEN <<"import { ">>
                \o [k \in 1..(n - 3) |->
                      IF MessageAt(s, i + k) THEN "ToastMessageOptions"
                      ELSE s[i + k]]
                \o <<" } from ", "'primeng/api'">>
         ELSE SubSeq(s, i, i + n - 1)
    [] rx.kind = "prefix" -> <<s[i], rx.map[s[i + 1]]>>
    [] rx.kind = "tagAttr" ->
         SubSeq(s, i, i + n - 2) \o rx.attr \o <<">">>
    [] rx.kind = "chipsProps" ->
         LET e == Min({SkipSpace(s, i + 1), i + n - 1})
             whitespace == SubSeq(s, i + 1, e - 1)
             props == SubSeq(s, e, i + n - 2)
             K == {k \in 1..Len(chipsProperties) :
                     \E j \in 1..Len(props) :
                       props[j] \in chipsProperties[k].opens}
         IN IF K = {} THEN SubSeq(s, i, i + n - 1)
            ELSE LET b == chipsProperties[Min(K)] IN
                 <<s[i]>> \o whitespace
                   \o [k \in 1..Len(props) |->
                         IF b.rename # <<>> /\ props[k] = b.rename[1]
                         THEN b.rename[2] ELSE props[k]]
                   \o <<b.note>> \o whitespace \o <<">">>
    [] rx.kind = "sizeAttr" -> AfterFirstQuote[s[i + n - 1]]
    [] rx.kind = "modalProp" -> <<"closeOnEscape", ": ", s[i + n - 1]>>
    [] OTHER -> SubSeq(s, i, i + n - 1)

\* RegExp.prototype.test
Test(rx, s) == \E i \in 1..Len(s) : MatchLen(rx, s, i) > 0

\* String.prototype.replace with a global pattern: leftmost matches, one
\* after the other, never overlapping
RECURSIVE ReplaceFrom(_, _, _)
ReplaceFrom(rx, s, i) ==
  IF i > Len(s) THEN <<>>
  ELSE LET n == MatchLen(rx, s, i) IN
       IF n > 0 THEN Subst(rx, s, i, n) \o ReplaceFrom(rx, s, i + n)
       ELSE <<s[i]>> \o ReplaceFrom(rx, s, i + 1)

ReplaceAll(rx, s) == ReplaceFrom(rx, s, 1)

\* `if (rx.test(content)) content = content.replace(rx, ...)`
TestThenReplace(rx, s) == IF Test(rx, s) THEN ReplaceAll(rx, s) ELSE s

\* the rules read `tree.read(filePath)?.toString()` and return when the
\* result is falsy: a missing file and an empty file are both skipped
Falsy(content) == content = NoFile \/ content = <<>>

(***************************************************************************)
(* migrateToV18: updateCssClasses                                          *)
(***************************************************************************)
cssClassMappings ==
  << [old |-> <<"p-", "component">>, new |-> <<"p-", "element">>],
     [old |-> <<"p-", "inputtext">>, new |-> <<"p-", "input">>],
     [old |-> <<"p-", "link">>,      new |-> <<>>],
     [old |-> <<"p-", "highlight">>, new |-> <<"p-", "highlight", "ed">>],
     [old |-> <<"p-", "fluid">>,     new |-> <<"fluid">>] >>

classRegex(m) == [kind |-> "word", old |-> m.old, new |-> m.new]

RECURSIVE CssLoop(_, _)
CssLoop(k, s) ==
  IF k > Len(cssClassMappings) THEN s
  ELSE CssLoop(k + 1, TestThenReplace(classRegex(cssClassMappings[k]), s))

CssFileTypes == {".html", ".scss", ".css", ".ts"}

\* updateCssClassesFile with patterns that lack the word boundaries
RECURSIVE CssLoopNoBoundary(_, _)
CssLoopNoBoundary(k, s) ==
  IF k > Len(cssClassMappings) THEN s
  ELSE CssLoopNoBoundary(k + 1,
         TestThenReplace([kind |-> "lit", old |-> cssClassMappings[k].old,
                          new |-> cssClassMappings[k].new], s))

updateCssClassesFileNoBoundary(filePath, content) ==
  IF ~ \E e \in CssFileTypes : endsWith(filePath, e) THEN content
  ELSE IF Falsy(content) THEN content
  ELSE CssLoopNoBoundary(1, content)

updateCssClassesFile(filePath, content) ==
  IF ~ \E e \in CssFileTypes : endsWith(filePath, e) THEN content
  ELSE IF Falsy(content) THEN content
  ELSE CssLoop(1, content)

updateCssClasses(t) == [p \in Paths |-> updateCssClassesFile(p, t[p])]

(***************************************************************************)
(* migrateToV18: updateModuleImports                                       *)
(***************************************************************************)
moduleUpdates ==
  << [old |-> "primeng/calendar", new |-> "'primeng/datepicker'"],
     [old |-> "primeng/dropdown", new |-> "'primeng/select'"],
     [old |-> "primeng/inputswitch", new |-> "'primeng/toggleswitch'"],
     [old |-> "primeng/overlaypanel", new |-> "'primeng/popover'"],
     [old |-> "primeng/sidebar", new |-> "'primeng/drawer'"] >>

\* 'path' and "path" as chunks
SingleQuoted(path) ==
  CASE path = "primeng/calendar" -> "'primeng/calendar'"
    [] path = "primeng/dropdown" -> "'primeng/dropdown'"
    [] path = "primeng/inputswitch" -> "'primeng/inputswitch'"
    [] path = "primeng/overlaypanel" -> "'primeng/overlaypanel'"
    [] path = "primeng/sidebar" -> "'primeng/sidebar'"
    [] path = "primeng/api" -> "'primeng/api'"
    [] path = "primeng/dialog" -> "'primeng/dialog'"
DoubleQuoted(path) ==
  CASE path = "primeng/calendar" -> "\"primeng/calendar\""
    [] path = "primeng/dropdown" -> "\"primeng/dropdown\""
    [] path = "primeng/inputswitch" -> "\"primeng/inputswitch\""
    [] path = "primeng/overlaypanel" -> "\"primeng/overlaypanel\""
    [] path = "primeng/sidebar" -> "\"primeng/sidebar\""
    [] path = "primeng/api" -> "\"primeng/api\""
    [] path = "primeng/dialog" -> "\"primeng/dialog\""
\* ['"]path['"]
Quoted(path) == {SingleQuoted(path), DoubleQuoted(path)}

\* String.prototype.includes for a text that lies inside single chunks
includes(s, chunks) == \E i \in 1..Len(s) : s[i] \in chunks

importRegex(m) ==
  [kind |-> "import", close |-> ImportCloseChunks, paths |-> Quoted(m.old),
   newPath |-> m.new]
messageWordRegex == [kind |-> "word", old |-> <<"Message">>, new |-> <<>>]
\* variant: any import from primeng/api, whatever names it lists
messageImportRegexAnyName ==
  [kind |-> "import", close |-> ImportCloseChunks,
   paths |-> Quoted("primeng/api"), newPath |-> "'primeng/api'"]
messageImportRegex == [kind |-> "msgImport", paths |-> Quoted("primeng/api")]
messageRefRegex == [kind |-> "msgRef"]

RECURSIVE ImportLoop(_, _)
ImportLoop(k, s) ==
  IF k > Len(moduleUpdates) THEN s
  ELSE ImportLoop(k + 1, TestThenReplace(importRegex(moduleUpdates[k]), s))

updateMessageInterfaceV18(s) ==
  IF includes(s, Quoted("primeng/api")) /\ Test(messageWordRegex, s)
  THEN IF Test(messageImportRegex, s)
       THEN ReplaceAll(messageRefRegex, ReplaceAll(messageImportRegex, s))
       ELSE s
  ELSE s

updateModuleImportsFile(filePath, content) ==
  IF ~endsWith(filePath, ".ts") THEN content
  ELSE IF Falsy(content) THEN content
  ELSE updateMessageInterfaceV18(ImportLoop(1, content))

updateModuleImports(t) ==
  [p \in Paths |-> updateModuleImportsFile(p, t[p])]

(***************************************************************************)
(* migrateToV18: updateComponentSelectors                                  *)
(***************************************************************************)
selectorMappings ==
  << [old |-> "p-calendar", new |-> "p-datepicker"],
     [old |-> "p-dropdown", new |-> "p-select"],
     [old |-> "p-inputSwitch", new |-> "p-toggleSwitch"],
     [old |-> "p-overlayPanel", new |-> "p-popover"],
     [old |-> "p-sidebar", new |-> "p-drawer"] >>

\* `<${selector}` and `</${selector}>` as chunks
OpenChunk(sel) ==
  CASE sel = "p-calendar" -> "<p-calendar"
    [] sel = "p-dropdown" -> "<p-dropdown"
    [] sel = "p-inputSwitch" -> "<p-inputSwitch"
    [] sel = "p-overlayPanel" -> "<p-overlayPanel"
    [] sel = "p-sidebar" -> "<p-sidebar"
    [] sel = "p-datepicker" -> "<p-datepicker"
    [] sel = "p-select" -> "<p-select"
    [] sel = "p-toggleSwitch" -> "<p-toggleSwitch"
    [] sel = "p-popover" -> "<p-popover"
    [] sel = "p-drawer" -> "<p-drawer"
    [] sel = "p-dialog" -> "<p-dialog"
CloseChunk(sel) ==
  CASE sel = "p-calendar" -> "</p-calendar>"
    [] sel = "p-dropdown" -> "</p-dropdown>"
    [] sel = "p-inputSwitch" -> "</p-inputSwitch>"
    [] sel = "p-overlayPanel" -> "</p-overlayPanel>"
    [] sel = "p-sidebar" -> "</p-sidebar>"
    [] sel = "p-datepicker" -> "</p-datepicker>"
    [] sel = "p-select" -> "</p-select>"
    [] sel = "p-toggleSwitch" -> "</p-toggleSwitch>"
    [] sel = "p-popover" -> "</p-popover>"
    [] sel = "p-drawer" -> "</p-drawer>"
    [] sel = "p-dialog" -> "</p-dialog>"

openingTagRegex(m) ==
  [kind |-> "openTag", tag |-> OpenChunk(m.old),
   newTag |-> OpenChunk(m.new)]
\* closingTagRegex whose replacement lacks the '/'
closingTagRegexNoSlash(m) ==
  [kind |-> "lit", old |-> <<CloseChunk(m.old)>>,
   new |-> <<OpenChunk(m.new), ">">>]

closingTagRegex(m) ==
  [kind |-> "lit", old |-> <<CloseChunk(m.old)>>,
   new |-> <<CloseChunk(m.new)>>]

RECURSIVE SelectorLoop(_, _)
SelectorLoop(k, s) ==
  IF k > Len(selectorMappings) THEN s
  ELSE LET m == selectorMappings[k] IN
       SelectorLoop(k + 1,
         IF Test(openingTagRegex(m), s) \/ Test(closingTagRegex(m), s)
         THEN ReplaceAll(closingTagRegex(m), ReplaceAll(openingTagRegex(m), s))
         ELSE s)

updateComponentSelectorsFile(filePath, content) ==
  IF ~endsWith(filePath, ".html") /\ ~endsWith(filePath, ".ts") THEN content
  ELSE IF Falsy(content) THEN content
  ELSE SelectorLoop(1, content)

updateComponentSelectors(t) ==
  [p \in Paths |-> updateComponentSelectorsFile(p, t[p])]

(***************************************************************************)
(* migrateToV18: updateComponentProperties                                 *)
(***************************************************************************)
propertyMappings ==
  << [binding |-> "[showTransitionOptions]=\"",
      attr |-> "showTransitionOptions=\"", value |-> ".12s"],
     [binding |-> "[hideTransitionOptions]=\"",
      attr |-> "hideTransitionOptions=\"", value |-> ".12s"] >>

bindingRegex(m) ==
  [kind |-> "attr", open |-> m.binding, wb |-> FALSE,
   newOpen |-> m.binding,
   keep |-> FALSE, value |-> <<m.value, "\"">>, tail |-> <<>>]
attrRegex(m) ==
  [kind |-> "attr", open |-> m.attr, wb |-> FALSE, newOpen |-> m.attr,
   keep |-> FALSE, value |-> <<m.value, "\"">>, tail |-> <<>>]

RECURSIVE PropertyLoop(_, _)
PropertyLoop(k, s) ==
  IF k > Len(propertyMappings) THEN s
  ELSE LET m == propertyMappings[k] IN
       PropertyLoop(k + 1,
         TestThenReplace(attrRegex(m), TestThenReplace(bindingRegex(m), s)))

updateComponentPropertiesFile(filePath, content) ==
  IF ~endsWith(filePath, ".html") THEN content
  ELSE IF Falsy(content) THEN content
  ELSE PropertyLoop(1, content)

updateComponentProperties(t) ==
  [p \in Paths |-> updateComponentPropertiesFile(p, t[p])]

(***************************************************************************)
(* migrateToV18: updateDialogComponent                                     *)
(***************************************************************************)
modalBindingRegex ==
  [kind |-> "attr", open |-> "[modal]=\"", wb |-> FALSE,
   newOpen |-> "[closeOnEscape]=\"", keep |-> TRUE, value |-> <<>>,
   tail |-> <<>>]
modalAttrRegex ==
  [kind |-> "attr", open |-> "modal=\"", wb |-> TRUE,
   newOpen |-> "closeOnEscape=\"", keep |-> TRUE, value |-> <<>>,
   tail |-> <<>>]
modalPropertyRegex == [kind |-> "modalProp"]

updateDialogComponentFile(filePath, content) ==
  IF ~endsWith(filePath, ".html") /\ ~endsWith(filePath, ".ts") THEN content
  ELSE IF Falsy(content) THEN content
  ELSE LET html == IF endsWith(filePath, ".html")
                   THEN TestThenReplace(modalAttrRegex,
                          TestThenReplace(modalBindingRegex, content))
                   ELSE content
       IN IF endsWith(filePath, ".ts")
          THEN TestThenReplace(modalPropertyRegex, html)
          ELSE html

updateDialogComponent(t) ==
  [p \in Paths |-> updateDialogComponentFile(p, t[p])]

(***************************************************************************)
(* migrateToV18: updateDirectives                                          *)
(***************************************************************************)
directiveMappings ==
  << [old |-> <<"pAnimate">>, new |-> <<"pAnimate", "OnScroll">>],
     [old |-> <<"pDefer">>,   new |-> <<>>] >>

directiveRegex(m) == [kind |-> "word", old |-> m.old, new |-> m.new]

RECURSIVE DirectiveLoop(_, _)
DirectiveLoop(k, s) ==
  IF k > Len(directiveMappings) THEN s
  ELSE DirectiveLoop(k + 1,
         TestThenReplace(directiveRegex(directiveMappings[k]), s))

updateDirectivesFile(filePath, content) ==
  IF ~endsWith(filePath, ".html") THEN content
  ELSE IF Falsy(content) THEN content
  ELSE DirectiveLoop(1, content)

updateDirectives(t) == [p \in Paths |-> updateDirectivesFile(p, t[p])]

(***************************************************************************)
(* package.json and angular.json: the parsed value, and whether the text   *)
(* of the file is the text JSON.stringify(value, null, 2) writes           *)
(***************************************************************************)
Undefined == "undefined"
Versions == {"^17.18.0", "^18.0.0", "^3.3.1", "^4.0.0"}

\* JSON.stringify(value, null, 2), as tree.overwrite stores it
Stringify(json) == [json EXCEPT !.pretty = TRUE]

exists(t, path) ==
  IF path \in TextPaths THEN t[path] # NoFile ELSE t[path] # NoJson

\* addPackageJsonDependency without the test of tree.exists: a missing
\* package.json is written as a new file
addPackageJsonDependencyCreates(t, dependency) ==
  LET deps == IF ~exists(t, packageJsonPath)
                 \/ ~t[packageJsonPath].hasDependencies
              THEN [n \in {"primeng", "primeflex"} |-> Undefined]
              ELSE t[packageJsonPath].dependencies
  IN [t EXCEPT ![packageJsonPath] =
        [hasDependencies |-> TRUE, pretty |-> TRUE,
         dependencies |->
           [deps EXCEPT ![dependency.name] = dependency.version]]]

\* package.json: hasDependencies tells whether the key "dependencies" is
\* there; Undefined marks a package that is not listed
addPackageJsonDependency(t, dependency) ==
  IF ~exists(t, packageJsonPath) THEN t
  ELSE LET packageJson == t[packageJsonPath]
           deps == IF ~packageJson.hasDependencies
                   THEN [n \in {"primeng", "primeflex"} |-> Undefined]
                   ELSE packageJson.dependencies
       IN [t EXCEPT ![packageJsonPath] =
             Stringify([packageJson EXCEPT
               !.hasDependencies = TRUE,
               !.dependencies =
                 [deps EXCEPT ![dependency.name] = dependency.version]])]

primengDep ==
  [type |-> "dependencies", name |-> "primeng", version |-> "^18.0.0",
   overwrite |-> TRUE]

updateDependencies(t) ==
  LET t1 == addPackageJsonDependency(t, primengDep) IN
  IF exists(t1, packageJsonPath)
  THEN LET packageJsonContent == t1[packageJsonPath] IN
       IF packageJsonContent.hasDependencies
          /\ packageJsonContent.dependencies["primeflex"] # Undefined
       THEN [t1 EXCEPT ![packageJsonPath] =
              Stringify([packageJsonContent EXCEPT
                !.dependencies["primeflex"] = "^4.0.0"])]
       ELSE t1
  ELSE t1

\* entries of a styles array; ObjectStyle is an entry that is not a string
ObjectStyle == "{ input: node_modules/primeng/resources/primeng.min.css }"
PrimeNgStyles ==
  {"node_modules/primeng/resources/primeng.min.css",
   "node_modules/primeng/resources/themes/lara-light-blue/theme.css"}
StyleEntries == PrimeNgStyles \cup {"src/styles.scss", ObjectStyle}

\* the filter of updateAngularConfig without the test typeof style === 'string'
IsDeprecatedStyleOfAnyType(style) ==
  style \in PrimeNgStyles \/ style = ObjectStyle

\* typeof style === 'string' && style.includes('primeng/resources')
IsDeprecatedStyle(style) == style # ObjectStyle /\ style \in PrimeNgStyles

KeepStyle(style) == ~IsDeprecatedStyle(style)

\* one project: hasStyles tells whether architect.build.options.styles is
\* there
updateProjectStyles(project) ==
  IF ~project.hasStyles THEN project
  ELSE LET newStyles == SelectSeq(project.styles, KeepStyle) IN
       IF Len(project.styles) # Len(newStyles)
       THEN [project EXCEPT !.styles = newStyles] ELSE project

updateAngularConfig(t) ==
  IF ~exists(t, angularJsonPath) THEN t
  ELSE LET angularJson == t[angularJsonPath]
           hasChanged ==
             \E k \in 1..Len(angularJson.projects) :
               /\ angularJson.projects[k].hasStyles
               /\ \E e \in 1..Len(angularJson.projects[k].styles) :
                    IsDeprecatedStyle(angularJson.projects[k].styles[e])
           projects ==
             [k \in 1..Len(angularJson.projects) |->
                updateProjectStyles(angularJson.projects[k])]
       IN IF hasChanged
          THEN [t EXCEPT ![angularJsonPath] =
                 Stringify([angularJson EXCEPT !.projects = projects])]
          ELSE t

(***************************************************************************)
(* utils/file-utils.ts: analyzeFilesForMigration                           *)
(***************************************************************************)
\* the chunks a selector occurs in: <sel, </sel>, sel, .sel, sel-panel,
\* selector: 'sel', selector: "sel"
SelectorForms(sel) ==
  CASE sel = "p-calendar" ->
         <<"<p-calendar", "</p-calendar>", "p-calendar", ".p-calendar",
           "p-calendar-panel", "selector: 'p-calendar'",
           "selector: \"p-calendar\"">>
    [] sel = "p-datepicker" ->
         <<"<p-datepicker", "</p-datepicker>", "p-datepicker",
           ".p-datepicker", "p-datepicker-panel",
           "selector: 'p-datepicker'", "selector: \"p-datepicker\"">>
    [] sel = "p-sidebar" ->
         <<"<p-sidebar", "</p-sidebar>", "p-sidebar", ".p-sidebar",
           "p-sidebar-panel", "selector: 'p-sidebar'",
           "selector: \"p-sidebar\"">>
    [] sel = "p-dialog" ->
         <<"<p-dialog", "</p-dialog>", "p-dialog", ".p-dialog",
           "p-dialog-panel", "selector: 'p-dialog'",
           "selector: \"p-dialog\"">>

\* the chunks that contain the text sel
ChunksWith(sel) ==
  {SelectorForms(sel)[f] : f \in 1..7}
    \cup (IF sel = "p-dialog"
          THEN {".p-dialog-titlebar", ".p-dialog-header"} ELSE {})

\* content.includes("from 'path'"): `from ` ends one chunk, 'path' is the next
includesFrom(s, path) ==
  \E i \in 1..Len(s) :
    s[i] \in FromChunks /\ i + 1 <= Len(s) /\ s[i + 1] = SingleQuoted(path)

\* the chunks that contain the text p-chips, with what the first three
\* replacements of migrateChipsToAutoComplete make of them:
\*   <p-chips -> <p-autoComplete, </p-chips> -> </p-autoComplete>,
\*   selector: ['"]p-chips['"] -> selector: 'p-autoComplete'
ChipsSelectorForms ==
  ("<p-chips" :> "<p-autoComplete") @@ ("</p-chips>" :> "</p-autoComplete>")
    @@ ("selector: 'p-chips'" :> "selector: 'p-autoComplete'")
    @@ ("selector: \"p-chips\"" :> "selector: 'p-autoComplete'")

\* the predicates the migrations pass to analyzeFilesForMigration
PredicateNames ==
  {"calendarImports", "calendarSelectors", "calendarCss",
   "sidebarImports", "sidebarSelectors", "sidebarCss", "sidebarProperties"}

Predicate(name, filePath, content) ==
  CASE name = "calendarImports" ->
         endsWith(filePath, ".ts")
           /\ (includes(content, {"CalendarModule"})
                 \/ includesFrom(content, "primeng/calendar"))
    [] name = "calendarSelectors" ->
         (endsWith(filePath, ".html") \/ endsWith(filePath, ".ts"))
           /\ includes(content, ChunksWith("p-calendar"))
    [] name = "calendarCss" ->
         (endsWith(filePath, ".scss") \/ endsWith(filePath, ".css")
            \/ endsWith(filePath, ".html"))
           /\ (includes(content, ChunksWith("p-calendar"))
                 \/ includes(content, {".p-calendar"}))
    [] name = "sidebarImports" ->
         endsWith(filePath, ".ts")
           /\ (includes(content, {"SidebarModule"})
                 \/ includesFrom(content, "primeng/sidebar"))
    [] name = "sidebarSelectors" ->
         (endsWith(filePath, ".html") \/ endsWith(filePath, ".ts"))
           /\ includes(content, ChunksWith("p-sidebar"))
    [] name = "sidebarCss" ->
         (endsWith(filePath, ".scss") \/ endsWith(filePath, ".css")
            \/ endsWith(filePath, ".html"))
           /\ (includes(content, ChunksWith("p-sidebar"))
                 \/ includes(content, {".p-sidebar"}))
    [] name = "chipsSelectors" ->
         (endsWith(filePath, ".html") \/ endsWith(filePath, ".ts"))
           /\ includes(content, DOMAIN ChipsSelectorForms)
    [] name = "sizeProperty" ->
         endsWith(filePath, ".html")
           /\ includes(content, {"[size]=\"", "size=\"", "data-size=\""})
    [] name = "sidebarProperties" ->
         endsWith(filePath, ".html")
           /\ (includes(content, ChunksWith("p-sidebar"))
                 \/ includes(content, ChunksWith("p-dialog")))
    [] name = "dialogImports" ->
         endsWith(filePath, ".ts")
           /\ (includes(content, {"DialogModule"})
                 \/ includesFrom(content, "primeng/dialog"))
    [] name = "dialogProperties" ->
         (endsWith(filePath, ".html") \/ endsWith(filePath, ".ts"))
           /\ includes(content, ChunksWith("p-dialog"))
    [] name = "dialogCss" ->
         (endsWith(filePath, ".scss") \/ endsWith(filePath, ".css")
            \/ endsWith(filePath, ".html"))
           /\ includes(content, ChunksWith("p-dialog"))
    [] name = "messageInterface" ->
         endsWith(filePath, ".ts")
           /\ includes(content, MessageChunks)
           /\ includesFrom(content, "primeng/api")

\* the callback of tree.root.visit without the test for .css
VisitPushesNoCss(t, name, filePath) ==
  /\ (endsWith(filePath, ".ts") \/ endsWith(filePath, ".html")
        \/ endsWith(filePath, ".scss"))
  /\ exists(t, filePath)
  /\ Predicate(name, filePath, t[filePath])

\* the body of the callback of tree.root.visit: does the file at filePath
\* get pushed to result?  (tree.read gives a Buffer for every file visited,
\* an empty one for an empty file)
VisitPushes(t, name, filePath) ==
  /\ (endsWith(filePath, ".ts") \/ endsWith(filePath, ".html")
        \/ endsWith(filePath, ".scss") \/ endsWith(filePath, ".css"))
  /\ exists(t, filePath)
  /\ Predicate(name, filePath, t[filePath])

\* the files analyzeFilesForMigration returns
analyzeFilesForMigration(t, name) ==
  {filePath \in Paths : exists(t, filePath) /\ VisitPushes(t, name, filePath)}

\* `for (const filePath of filesToUpdate)` with a body that overwrites the
\* file with Update(content)
OverwriteFiles(t, filesToUpdate, Update(_)) ==
  [filePath \in Paths |->
     IF filePath \in filesToUpdate THEN Update(t[filePath]) ELSE t[filePath]]

(***************************************************************************)
(* Component migrations: the steps migrateCalendarToDatePicker and         *)
(* migrateSidebarToDialog share their shape                                *)
(***************************************************************************)
\* the within-chunk replacement of the forms fs of selector old by new
FormMap(old, new, fs) ==
  [c \in {SelectorForms(old)[f] : f \in fs} |->
     SelectorForms(new)[CHOOSE f \in fs : SelectorForms(old)[f] = c]]

\* content.replace(rxs[1], ..).replace(rxs[2], ..) ...: the replacements of
\* a chain of String.replace calls, from the first to the last
RECURSIVE ReplaceEach(_, _, _)
ReplaceEach(rxs, k, s) ==
  IF k > Len(rxs) THEN s ELSE ReplaceEach(rxs, k + 1, ReplaceAll(rxs[k], s))

\* .replace(/OldModule/g, 'NewModule')
\* .replace(/from ['"]old['"]/g, "from 'new'")
\* .replace(/import {([^}]*)} from ['"]old['"]/g, "import {$1} from 'new'")
RenameImports(m, content) ==
  ReplaceEach(
    << [kind |-> "within", map |-> (m.module :> m.newModule)],
       [kind |-> "fromPath", paths |-> Quoted(m.path),
        newPath |-> m.newPath],
       [kind |-> "import", close |-> FromChunks,
        paths |-> Quoted(m.path), newPath |-> m.newPath] >>,
    1, content)

\* .replace(/<old/g, '<new').replace(/<\/old>/g, '</new>')
\* .replace(/selector: ['"]old['"]/g, "selector: 'new'")
RenameSelectors(m, content) ==
  ReplaceEach(
    << [kind |-> "within", map |-> FormMap(m.selector, m.newSelector, {1})],
       [kind |-> "within", map |-> FormMap(m.selector, m.newSelector, {2})],
       [kind |-> "within",
        map |-> (SelectorForms(m.selector)[6]
                   :> SelectorForms(m.newSelector)[6]
                 @@ SelectorForms(m.selector)[7]
                   :> SelectorForms(m.newSelector)[6])] >>,
    1, content)

\* .replace(/\.old/g, '.new').replace(/old-/g, 'new-').replace(/old/g, 'new')
RenameCssClasses(m, content) ==
  ReplaceEach(
    << [kind |-> "within", map |-> FormMap(m.selector, m.newSelector, {4})],
       [kind |-> "within", map |-> FormMap(m.selector, m.newSelector, {5})],
       [kind |-> "within",
        map |-> FormMap(m.selector, m.newSelector, 1..7)] >>,
    1, content)

(***************************************************************************)
(* migrations/calendar-datepicker (and its copy with Schema options)       *)
(***************************************************************************)
calendarNames ==
  [module |-> "CalendarModule", newModule |-> "DatePickerModule",
   path |-> "primeng/calendar", newPath |-> "'primeng/datepicker'",
   selector |-> "p-calendar", newSelector |-> "p-datepicker"]

calendar_updateModuleImports(t) ==
  LET Update(content) == RenameImports(calendarNames, content) IN
  OverwriteFiles(t, analyzeFilesForMigration(t, "calendarImports"), Update)

calendar_updateComponentSelectors(t) ==
  LET Update(content) == RenameSelectors(calendarNames, content) IN
  OverwriteFiles(t, analyzeFilesForMigration(t, "calendarSelectors"), Update)

calendar_updateCssClasses(t) ==
  LET Update(content) == RenameCssClasses(calendarNames, content) IN
  OverwriteFiles(t, analyzeFilesForMigration(t, "calendarCss"), Update)

\* the three steps of migrateCalendarToDatePicker, in order
calendar_updateFiles(t) ==
  calendar_updateCssClasses(
    calendar_updateComponentSelectors(calendar_updateModuleImports(t)))

(***************************************************************************)
(* migrations/sidebar-dialog                                               *)
(***************************************************************************)
sidebarDialogNames ==
  [module |-> "SidebarModule", newModule |-> "DialogModule",
   path |-> "primeng/sidebar", newPath |-> "'primeng/dialog'",
   selector |-> "p-sidebar", newSelector |-> "p-dialog"]

sidebarDialog_updateModuleImports(t) ==
  LET Update(content) == RenameImports(sidebarDialogNames, content) IN
  OverwriteFiles(t, analyzeFilesForMigration(t, "sidebarImports"), Update)

sidebarDialog_updateComponentSelectors(t) ==
  LET Update(content) == RenameSelectors(sidebarDialogNames, content) IN
  OverwriteFiles(t, analyzeFilesForMigration(t, "sidebarSelectors"), Update)

sidebarDialog_updateCssClasses(t) ==
  LET Update(content) == RenameCssClasses(sidebarDialogNames, content) IN
  OverwriteFiles(t, analyzeFilesForMigration(t, "sidebarCss"), Update)

\* \[name\]="([^"]*)" -> [new]="$1" note
propertyNoteRegex(m) ==
  [kind |-> "attr", open |-> m.open, wb |-> FALSE, newOpen |-> m.new,
   keep |-> TRUE, value |-> <<>>, tail |-> <<m.note>>]
\* (<p-dialog[^>]*?>) -> $1 NoteDialog
dialogNoteRegex ==
  [kind |-> "tagNote", tag |-> "<p-dialog", note |-> NoteDialog]

RECURSIVE PropertyNoteLoop(_, _)
PropertyNoteLoop(k, s) ==
  IF k > Len(sidebarDialogProperties) THEN s
  ELSE PropertyNoteLoop(k + 1,
         ReplaceAll(propertyNoteRegex(sidebarDialogProperties[k]), s))

sidebarDialog_updateComponentProperties(t) ==
  LET Update(content) ==
        ReplaceAll(dialogNoteRegex, PropertyNoteLoop(1, content)) IN
  OverwriteFiles(t, analyzeFilesForMigration(t, "sidebarProperties"), Update)

\* the four steps of migrateSidebarToDialog, in order
sidebarDialog_updateFiles(t) ==
  sidebarDialog_updateComponentProperties(
    sidebarDialog_updateCssClasses(
      sidebarDialog_updateComponentSelectors(
        sidebarDialog_updateModuleImports(t))))

(***************************************************************************)
(* migrations/dialog                                                       *)
(***************************************************************************)
\* the values promptForConfirmation resolves to: the answer typed, in lower
\* case and trimmed
Confirmations == {"run", "skip", "cancel", "yes", ""}

\* `tree.overwrite(filePath, content)`: the content as it was
dialog_updateModuleImports(t) ==
  LET Update(content) == content IN
  OverwriteFiles(t, analyzeFilesForMigration(t, "dialogImports"), Update)

\* \[showHeader\]="([^"]*)" -> [header]="$1"
showHeaderBindingRegex ==
  [kind |-> "attr", open |-> "[showHeader]=\"", wb |-> FALSE,
   newOpen |-> "[header]=\"", keep |-> TRUE, value |-> <<>>, tail |-> <<>>]
\* showHeader="([^"]*)" -> header="$1"
showHeaderAttrRegex ==
  [kind |-> "attr", open |-> "showHeader=\"", wb |-> FALSE,
   newOpen |-> "header=\"", keep |-> TRUE, value |-> <<>>, tail |-> <<>>]

dialog_updateComponentProperties(t) ==
  LET Update(content) ==
        ReplaceAll(showHeaderAttrRegex,
                   ReplaceAll(showHeaderBindingRegex, content)) IN
  OverwriteFiles(t, analyzeFilesForMigration(t, "dialogProperties"), Update)

\* .replace(/\.p-dialog-titlebar/g, '.p-dialog-header')
dialog_updateCssClasses(t) ==
  LET Update(content) ==
        ReplaceAll([kind |-> "within",
                    map |-> (".p-dialog-titlebar" :> ".p-dialog-header")],
                   content) IN
  OverwriteFiles(t, analyzeFilesForMigration(t, "dialogCss"), Update)

\* the three steps of updateDialogComponent, in order
dialog_updateFiles(t) ==
  dialog_updateCssClasses(
    dialog_updateComponentProperties(dialog_updateModuleImports(t)))

(***************************************************************************)
(* migrations/messages-message: updateMessageInterface                     *)
(***************************************************************************)
\* the texts that start with Message, and what the replacement of that
\* Message by ToastMessageOptions makes of them
MessagePrefixed ==
  ("Message" :> "ToastMessageOptions")
    @@ ("MessageService" :> "ToastMessageOptionsService")

\* /import {([^}]*)} from ['"]primeng\/api['"]/g with its callback
apiImportRegex == [kind |-> "apiImport", paths |-> Quoted("primeng/api")]
\* /: Message(\[\])?/g -> ': ToastMessageOptions$1'
messageTypeRegex == [kind |-> "prefix", open |-> ": ", map |-> MessagePrefixed]
\* /as Message(\[\])?/g -> 'as ToastMessageOptions$1'
messageCastRegex == [kind |-> "prefix", open |-> "as ", map |-> MessagePrefixed]
\* /<Message(\[\])?>/g -> '<ToastMessageOptions$1>'
messageGenericRegex ==
  [kind |-> "lit", old |-> <<"<", "Message", ">">>,
   new |-> <<"<", "ToastMessageOptions", ">">>]
messageArrayGenericRegex ==
  [kind |-> "lit", old |-> <<"<", "Message", "[]", ">">>,
   new |-> <<"<", "ToastMessageOptions", "[]", ">">>]

messages_updateMessageInterface(t) ==
  LET Update(content) ==
        ReplaceEach(<<apiImportRegex, messageTypeRegex, messageCastRegex,
                      messageGenericRegex, messageArrayGenericRegex>>,
                    1, content) IN
  OverwriteFiles(t, analyzeFilesForMigration(t, "messageInterface"), Update)

(***************************************************************************)
(* git, as the migrations run it with execSync                             *)
(*   foreign   uncommitted changes that were in the working directory      *)
(*             before the run: "none", "tracked", "untracked" (new files   *)
(*             only)                                                       *)
(*   migrated  changes of the migration are in the working directory and   *)
(*             not committed                                               *)
(*   fails     the git commands that exit with an error                    *)
(*   log       the commands executed                                       *)
(*   commits   the commits created: what each one contains                 *)
(***************************************************************************)
GitCommands == {"status", "stash", "add", "commit"}

\* execSync(cmd)
Exec(g, cmd) == [g EXCEPT !.log = Append(@, cmd)]
\* `git status --porcelain` prints something
Porcelain(g) == g.foreign # "none" \/ g.migrated
\* `git commit` with everything staged
Commit(g) ==
  [g EXCEPT !.commits = Append(@, [foreign |-> g.foreign # "none",
                                   migrated |-> g.migrated]),
            !.foreign = "none", !.migrated = FALSE]

\* index.ts: hasUnstagedChanges, stashChanges, commitChanges; each as the
\* value returned and as the repository afterwards
v18_hasUnstagedChanges(g) == "status" \in g.fails \/ Porcelain(g)
v18_hasUnstagedChangesGit(g) == Exec(g, "git status --porcelain")
v18_stashChanges(g) == "stash" \notin g.fails
v18_stashChangesGit(g) ==
  IF "stash" \in g.fails THEN Exec(g, "git stash")
  ELSE [Exec(g, "git stash") EXCEPT
          !.foreign = IF @ = "tracked" THEN "none" ELSE @]
v18_commitChangesGit(g) ==
  LET g1 == Exec(g, "git add .") IN
  IF "add" \in g.fails THEN g1
  ELSE LET g2 == Exec(g1, "git commit") IN
       IF "commit" \in g.fails \/ ~Porcelain(g2) THEN g2 ELSE Commit(g2)

\* utils/git-utils.ts: hasUnstagedChanges, commitChanges (hasGitChanges and
\* commitGitChanges of calendar-datepicker are copies)
hasUnstagedChanges(g) == "status" \notin g.fails /\ Porcelain(g)
hasUnstagedChangesGit(g) == Exec(g, "git status --porcelain")
commitChangesGit(g) ==
  LET g1 == Exec(g, "git add --all") IN
  IF "add" \in g.fails THEN g1
  ELSE LET g2 == Exec(g1, "git status --porcelain") IN
       IF "status" \in g.fails \/ ~Porcelain(g2) THEN g2
       ELSE LET g3 == Exec(g2, "git commit") IN
            IF "commit" \in g.fails THEN g3 ELSE Commit(g3)

(***************************************************************************)
(* The rules of migrateToV18, applied one at a time to an input tree       *)
(***************************************************************************)
V18Rules ==
  {"updateDependencies", "updateModuleImports", "updateComponentSelectors",
   "updateCssClasses", "updateComponentProperties", "updateDialogComponent",
   "updateAngularConfig", "updateDirectives"}

\* the rule ends with an exception: JSON.parse throws a SyntaxError and the
\* rule has no try
Throws(rule, t) ==
  \/ rule = "updateDependencies" /\ t[packageJsonPath] = BadJson
  \/ rule = "updateAngularConfig" /\ t[angularJsonPath] = BadJson

ApplyRule(rule, t) ==
  CASE rule = "updateDependencies" -> updateDependencies(t)
    [] rule = "updateModuleImports" -> updateModuleImports(t)
    [] rule = "updateComponentSelectors" -> updateComponentSelectors(t)
    [] rule = "updateCssClasses" -> updateCssClasses(t)
    [] rule = "updateComponentProperties" -> updateComponentProperties(t)
    [] rule = "updateDialogComponent" -> updateDialogComponent(t)
    [] rule = "updateAngularConfig" -> updateAngularConfig(t)
    [] rule = "updateDirectives" -> updateDirectives(t)

SeqsUpTo(V, n) == UNION {[1..k -> V] : k \in 0..n}

EmptyTree ==
  [p \in Paths |-> IF p \in TextPaths THEN NoFile ELSE NoJson]

NoOptions ==
  [skipGitCheck |-> FALSE, skipCommit |-> FALSE,
   partOfParentMigration |-> FALSE]

\* input files: a path and the chunks its content is made of
ImportStatement(cls, path) == <<"import { ", cls, " } from ", path, ";">>

\* a .ts file that imports from 'primeng/api' and goes on with type
\* annotations, casts and type arguments
MessageTsInputs ==
  { ImportStatement(cls, q) \o extra :
      cls \in {"Message", "MessageService"},
      q \in Quoted("primeng/api"),
      extra \in SeqsUpTo({": ", "as ", "<", ">", "Message",
                          "MessageService"}, MaxLen - 1) }

InputFamilies ==
  { [path |-> ScssPath,
     vocab |-> {".", "p-", "fluid", "link", "highlight",
                " { width: 100%; }"}],
    [path |-> HtmlPath,
     vocab |-> {"class=\"", "p-", "link", " my-button\"", "component",
                "inputtext"}],
    [path |-> HtmlPath,
     vocab |-> {"<p-dropdown", "</p-dropdown>", " [style]=\"x\"", ">",
                "<p-calendar", "</p-calendar>"}],
    [path |-> HtmlPath,
     vocab |-> {"<p-dropdown", " ", "/", ">", "-item", "x"}],
    [path |-> TsPath,
     vocab |-> {"import { ", "CalendarModule", " } from ", " }  from  ",
                "'primeng/calendar'", "\"primeng/calendar\""}],
    [path |-> TsPath,
     vocab |-> {"import { ", "Message", "MessageService", " } from ",
                "'primeng/api'", " = "}],
    [path |-> HtmlPath,
     vocab |-> {"[modal]=\"", "modal=\"", "true", "\"",
                "[showTransitionOptions]=\"", "showTransitionOptions=\""}],
    [path |-> TsPath,
     vocab |-> {"modal", ": ", ":", " ", "true", "x"}],
    [path |-> HtmlPath,
     vocab |-> {"pAnimate", "pDefer", "OnScroll", " ", "x", ">"}],
    [path |-> MdPath,
     vocab |-> {"p-", "link", "<p-dropdown", ">", "pDefer", "modal=\""}],
    [path |-> CssPath,
     vocab |-> {".", "p-", "link", "-active"}] }

PackageJsonValues ==
  { [hasDependencies |-> h, dependencies |-> d, pretty |-> f] :
      h \in BOOLEAN,
      d \in [{"primeng", "primeflex"} -> {Undefined, "^17.18.0", "^18.0.0",
                                          "^3.3.1", "^4.0.0"}],
      f \in BOOLEAN }

ValidPackageJson(v) ==
  /\ v.dependencies["primeng"] \in {Undefined, "^17.18.0", "^18.0.0"}
  /\ v.dependencies["primeflex"] \in {Undefined, "^3.3.1", "^4.0.0"}
  /\ (~v.hasDependencies =>
        \A n \in {"primeng", "primeflex"} : v.dependencies[n] = Undefined)

Projects ==
  { [hasStyles |-> h, styles |-> st] :
      h \in BOOLEAN, st \in SeqsUpTo(StyleEntries, MaxStyles) }
ValidProject(pr) == ~pr.hasStyles => pr.styles = <<>>

AngularJsonValues ==
  { [projects |-> ps, pretty |-> f] :
      ps \in SeqsUpTo({pr \in Projects : ValidProject(pr)}, MaxProjects),
      f \in BOOLEAN }

InitRules ==
  /\ \/ \E fam \in InputFamilies :
          \E content \in SeqsUpTo(fam.vocab, MaxLen) :
            tree = [EmptyTree EXCEPT ![fam.path] = content]
     \/ \E content \in MessageTsInputs :
          tree = [EmptyTree EXCEPT ![TsPath] = content]
     \/ \E pj \in {v \in PackageJsonValues : ValidPackageJson(v)}
                    \cup {NoJson} :
          \E aj \in AngularJsonValues \cup {NoJson} :
            tree = [EmptyTree EXCEPT ![packageJsonPath] = pj,
                                     ![angularJsonPath] = aj]
  /\ prevTree = tree
  /\ lastRule = "none"
  /\ pc = "ready"
  /\ migration = "rule"
  /\ options = NoOptions
  /\ answers = [migrate |-> TRUE, commit |-> TRUE, confirmation |-> "run"]
  /\ git = [foreign |-> "none", migrated |-> FALSE, fails |-> {},
            log |-> <<>>, commits |-> <<>>]
  /\ disk = tree
  /\ hadUnstagedChanges = FALSE
  /\ timer = FALSE
  /\ result = [visited |-> {}, paths |-> <<>>]
  /\ predicate = "none"
  /\ bash = NoBash
  /\ applied = {}

RunRule(rule) ==
  /\ pc = "ready"
  /\ tree' = ApplyRule(rule, tree)
  /\ prevTree' = tree
  /\ lastRule' = rule
  /\ pc' = "applied"
  /\ UNCHANGED <<migration, options, applied, answers, bash, git, disk, hadUnstagedChanges,
                 timer, result, predicate>>

RunUpdateDependencies == RunRule("updateDependencies")
RunUpdateModuleImports == RunRule("updateModuleImports")
RunUpdateComponentSelectors == RunRule("updateComponentSelectors")
RunUpdateCssClasses == RunRule("updateCssClasses")
RunUpdateComponentProperties == RunRule("updateComponentProperties")
RunUpdateDialogComponent == RunRule("updateDialogComponent")
RunUpdateAngularConfig == RunRule("updateAngularConfig")
RunUpdateDirectives == RunRule("updateDirectives")

NextRules ==
  \/ RunUpdateDependencies
  \/ RunUpdateModuleImports
  \/ RunUpdateComponentSelectors
  \/ RunUpdateCssClasses
  \/ RunUpdateComponentProperties
  \/ RunUpdateDialogComponent
  \/ RunUpdateAngularConfig
  \/ RunUpdateDirectives

SpecRules == InitRules /\ [][NextRules]_vars

(***************************************************************************)
(* The six text rules of the chain, each applied once, in any order        *)
(***************************************************************************)
TextRuleOrder ==
  <<"updateModuleImports", "updateComponentSelectors", "updateCssClasses",
    "updateComponentProperties", "updateDialogComponent", "updateDirectives">>

\* input files with text for more than one rule
OrderFamilies ==
  { [path |-> HtmlPath,
     vocab |-> {"<p-dropdown", "/", ">", "pDefer"}],
    [path |-> HtmlPath,
     vocab |-> {"class=\"", "p-", "link", "\"", "pAnimate",
                "[showTransitionOptions]=\""}],
    [path |-> TsPath,
     vocab |-> {"import { ", "Message", " } from ", "'primeng/api'",
                "modal", ": ", "true"}] }

InitOrder ==
  /\ \E fam \in OrderFamilies :
       \E content \in SeqsUpTo(fam.vocab, MaxLen) :
         tree = [EmptyTree EXCEPT ![fam.path] = content]
  /\ prevTree = tree
  /\ lastRule = "none"
  /\ pc = "ready"
  /\ migration = "rules"
  /\ options = NoOptions
  /\ answers = [migrate |-> TRUE, commit |-> TRUE, confirmation |-> "run"]
  /\ git = [foreign |-> "none", migrated |-> FALSE, fails |-> {},
            log |-> <<>>, commits |-> <<>>]
  /\ disk = tree
  /\ hadUnstagedChanges = FALSE
  /\ timer = FALSE
  /\ result = [visited |-> {}, paths |-> <<>>]
  /\ predicate = "none"
  /\ bash = NoBash
  /\ applied = {}

\* a rule that was not applied yet is applied to the tree
ApplyTextRule ==
  /\ pc = "ready"
  /\ \E k \in 1..Len(TextRuleOrder) :
       /\ TextRuleOrder[k] \notin applied
       /\ tree' = ApplyRule(TextRuleOrder[k], tree)
       /\ lastRule' = TextRuleOrder[k]
       /\ applied' = applied \cup {TextRuleOrder[k]}
  /\ UNCHANGED <<prevTree, pc, migration, options, answers, bash, git, disk,
                 hadUnstagedChanges, timer, result, predicate>>

NextOrder == ApplyTextRule

SpecOrder == InitOrder /\ [][NextOrder]_vars

\* the six rules in the order of the chain
RECURSIVE ChainOfTextRules(_, _)
ChainOfTextRules(k, t) ==
  IF k > Len(TextRuleOrder) THEN t
  ELSE ChainOfTextRules(k + 1, ApplyRule(TextRuleOrder[k], t))

(***************************************************************************)
(* The engine writes the Tree back to the working directory when the       *)
(* schematic has run                                                       *)
(***************************************************************************)
WriteBack ==
  /\ pc = "write"
  /\ disk' = tree
  /\ git' = [git EXCEPT !.migrated = @ \/ tree # disk]
  /\ pc' = "done"
  /\ UNCHANGED <<tree, prevTree, lastRule, migration, options, applied, answers, bash,
                 hadUnstagedChanges, timer, result, predicate>>

GitStates(fails) ==
  { [foreign |-> f, migrated |-> FALSE, fails |-> x, log |-> <<>>,
     commits |-> <<>>] :
      f \in {"none", "tracked", "untracked"}, x \in fails }

(***************************************************************************)
(* migrateToV18                                                            *)
(***************************************************************************)
MaxExtra == 1      \* chunks that follow the import statement of an input

OldModules ==
  <<"CalendarModule", "DropdownModule", "InputSwitchModule",
    "OverlayPanelModule", "SidebarModule">>

ChainTsInputs ==
  UNION { { ImportStatement(OldModules[k], q) \o extra :
              q \in Quoted(moduleUpdates[k].old),
              extra \in SeqsUpTo({"Message", "<p-calendar", ">", "p-"},
                                 MaxExtra) } :
          k \in 1..Len(moduleUpdates) }
    \cup {NoFile}
ChainHtmlInputs ==
  {NoFile, <<"<p-dropdown", " [style]=\"x\"", ">", "</p-dropdown>">>,
   <<"class=\"", "p-", "link", " my-button\"">>,
   <<"[modal]=\"", "true", "\"", "pDefer">>}
\* a package.json and an angular.json of a PrimeNG 17 application
V17PackageJson ==
  [hasDependencies |-> TRUE, pretty |-> FALSE,
   dependencies |-> [n \in {"primeng", "primeflex"} |->
                       IF n = "primeng" THEN "^17.18.0" ELSE "^3.3.1"]]
V17AngularJson ==
  [pretty |-> FALSE,
   projects |-> << [hasStyles |-> TRUE,
                    styles |-> <<"node_modules/primeng/resources/primeng.min.css",
                                 "src/styles.scss">>] >>]
ChainJsonInputs ==
  {<<NoJson, NoJson>>, <<V17PackageJson, V17AngularJson>>,
   <<BadJson, V17AngularJson>>, <<V17PackageJson, BadJson>>}

InitChain ==
  /\ \E ts \in ChainTsInputs : \E html \in ChainHtmlInputs :
       \E json \in ChainJsonInputs :
         tree = [EmptyTree EXCEPT ![TsPath] = ts, ![HtmlPath] = html,
                                  ![packageJsonPath] = json[1],
                                  ![angularJsonPath] = json[2]]
  /\ prevTree = tree
  /\ disk = tree
  /\ lastRule = "none"
  /\ pc = "start"
  /\ migration = "migrateToV18"
  /\ options \in [skipGitCheck : BOOLEAN, skipCommit : BOOLEAN,
                  partOfParentMigration : {FALSE}]
  /\ answers = [migrate |-> TRUE, commit |-> TRUE, confirmation |-> "run"]
  /\ git \in GitStates({{}, {"status"}, {"stash"}, {"add"}, {"commit"}})
  /\ hadUnstagedChanges = FALSE
  /\ timer = FALSE
  /\ result = [visited |-> {}, paths |-> <<>>]
  /\ predicate = "none"
  /\ bash = NoBash
  /\ applied = {}

ChainOrder ==
  <<"updateDependencies", "updateModuleImports", "updateComponentSelectors",
    "updateCssClasses", "updateComponentProperties", "updateDialogComponent",
    "updateAngularConfig", "updateDirectives">>

\* migrateToV18 with the tests of options.skipGitCheck and options.skipCommit
\* left out
MigrateToV18IgnoresOptions ==
  /\ pc = "start"
  /\ migration = "migrateToV18"
  /\ LET unstaged == v18_hasUnstagedChanges(git)
         g1 == v18_hasUnstagedChangesGit(git)
         g2 == IF unstaged THEN v18_stashChangesGit(g1) ELSE g1
         aborted == unstaged /\ ~v18_stashChanges(g1)
     IN /\ git' = IF aborted THEN g2 ELSE v18_commitChangesGit(g2)
        /\ pc' = IF aborted THEN "write" ELSE ChainOrder[1]
  /\ UNCHANGED <<tree, prevTree, lastRule, migration, options, applied, answers, bash,
                 disk, hadUnstagedChanges, timer, result, predicate>>

\* the function migrateToV18 returns, as the engine calls it: the git check,
\* the chain (built here, its rules run when the engine subscribes to the
\* tree returned) and the commit.  A rule that throws ends the run: the
\* engine reports the error and writes nothing (pc = "error")
MigrateToV18 ==
  /\ pc = "start"
  /\ migration = "migrateToV18"
  /\ LET check == ~options.skipGitCheck
         unstaged == check /\ v18_hasUnstagedChanges(git)
         g1 == IF check THEN v18_hasUnstagedChangesGit(git) ELSE git
         g2 == IF unstaged THEN v18_stashChangesGit(g1) ELSE g1
         aborted == unstaged /\ ~v18_stashChanges(g1)
     IN /\ git' = IF aborted \/ options.skipCommit THEN g2
                  ELSE v18_commitChangesGit(g2)
        /\ pc' = IF aborted THEN "write" ELSE ChainOrder[1]
  /\ UNCHANGED <<tree, prevTree, lastRule, migration, options, applied, answers, bash,
                 disk, hadUnstagedChanges, timer, result, predicate>>

ChainStep(k) ==
  /\ pc = ChainOrder[k]
  /\ migration = "migrateToV18"
  /\ IF Throws(ChainOrder[k], tree)
     THEN /\ pc' = "error"
          /\ UNCHANGED <<tree, lastRule>>
     ELSE /\ tree' = ApplyRule(ChainOrder[k], tree)
          /\ lastRule' = ChainOrder[k]
          /\ pc' = IF k < Len(ChainOrder) THEN ChainOrder[k + 1] ELSE "write"
  /\ UNCHANGED <<prevTree, migration, options, applied, answers, bash, git, disk,
                 hadUnstagedChanges, timer, result, predicate>>

ChainUpdateDependencies == ChainStep(1)
ChainUpdateModuleImports == ChainStep(2)
ChainUpdateComponentSelectors == ChainStep(3)
ChainUpdateCssClasses == ChainStep(4)
ChainUpdateComponentProperties == ChainStep(5)
ChainUpdateDialogComponent == ChainStep(6)
ChainUpdateAngularConfig == ChainStep(7)
ChainUpdateDirectives == ChainStep(8)

NextChain ==
  \/ MigrateToV18
  \/ ChainUpdateDependencies
  \/ ChainUpdateModuleImports
  \/ ChainUpdateComponentSelectors
  \/ ChainUpdateCssClasses
  \/ ChainUpdateComponentProperties
  \/ ChainUpdateDialogComponent
  \/ ChainUpdateAngularConfig
  \/ ChainUpdateDirectives
  \/ WriteBack

SpecChain == InitChain /\ [][NextChain]_vars

\* the engine runs the schematic to its end: it subscribes to the tree the
\* rule returns and writes the result
\* the runs on a tree without source files
InitFairChain ==
  InitChain /\ \A p \in TextPaths : tree[p] = NoFile
FairChain == InitFairChain /\ [][NextChain]_vars /\ WF_vars(NextChain)

(***************************************************************************)
(* The component migrations migrateCalendarToDatePicker (without and with  *)
(* Schema options) and migrateSidebarToDialog                              *)
(***************************************************************************)
ComponentMigrations ==
  {"calendar", "calendarSchema", "sidebarDialog", "dialog", "dialogSchema"}
\* the migrations that take the options of Schema
SchemaMigrations == {"calendarSchema", "dialogSchema"}

updateFiles(m, t) ==
  IF m = "sidebarDialog" THEN sidebarDialog_updateFiles(t)
  ELSE IF m \in {"dialog", "dialogSchema"} THEN dialog_updateFiles(t)
  ELSE calendar_updateFiles(t)

CalendarScenario ==
  ImportStatement("CalendarModule", SingleQuoted("primeng/calendar"))

ComponentTsInputs ==
  { base \o extra :
      base \in {<<>>, CalendarScenario,
                ImportStatement("SidebarModule",
                                DoubleQuoted("primeng/sidebar"))},
      extra \in SeqsUpTo({"import(", "'primeng/calendar'", " }  from  ",
                          "selector: \"p-calendar\""}, MaxExtra + 1) }
ComponentHtmlInputs ==
  { base \o extra :
      base \in {<<>>, <<"<p-calendar", ">", "</p-calendar>">>,
                <<"<p-sidebar", " ", "[modal]=\"", "true", "\"", ">">>,
                <<"<p-dialog", " ", "[fullScreen]=\"", "x", "\"">>,
                <<"<p-dialog", " ", "[showHeader]=\"", "true", "\"", " ",
                  "showHeader=\"", "true", "\"", ">">>},
      extra \in SeqsUpTo({">", "</p-sidebar>", "p-calendar-panel"},
                         MaxExtra) }
ComponentScssInputs ==
  {<<".p-calendar", " { width: 100%; }">>, <<".p-sidebar", "p-sidebar-panel">>,
   <<".p-dialog-titlebar", " { width: 100%; }">>}

ComponentInputs ==
  {[EmptyTree EXCEPT ![TsPath] = c] : c \in ComponentTsInputs}
    \cup {[EmptyTree EXCEPT ![HtmlPath] = c] : c \in ComponentHtmlInputs}
    \cup {[EmptyTree EXCEPT ![ScssPath] = c, ![MdPath] = <<"p-calendar">>] :
            c \in ComponentScssInputs}
    \cup {EmptyTree}

InitComponent ==
  /\ tree \in ComponentInputs
  /\ prevTree = tree
  /\ disk = tree
  /\ lastRule = "none"
  /\ pc = "start"
  /\ migration \in ComponentMigrations
  /\ options \in [skipGitCheck : BOOLEAN, skipCommit : BOOLEAN,
                  partOfParentMigration : BOOLEAN]
  /\ (migration \notin SchemaMigrations => options = NoOptions)
  /\ answers \in [migrate : BOOLEAN, commit : BOOLEAN,
                  confirmation : Confirmations]
  /\ (migration = "dialog" => (answers.migrate /\ answers.commit))
  /\ (migration # "dialog" => answers.confirmation = "run")
  /\ git \in GitStates({{}, {"status"}, {"add"}, {"commit"}})
  /\ hadUnstagedChanges = FALSE
  /\ timer = FALSE
  /\ result = [visited |-> {}, paths |-> <<>>]
  /\ predicate = "none"
  /\ bash = NoBash
  /\ applied = {}

\* the rule of a migration without options (calendar-datepicker,
\* sidebar-dialog): prompt, git check, the steps; it returns the commit rule
MigrateNoOptions(m) ==
  /\ pc = "start"
  /\ migration = m
  /\ IF ~answers.migrate
     THEN /\ pc' = "write"
          /\ UNCHANGED <<tree, git, hadUnstagedChanges, lastRule>>
     ELSE /\ hadUnstagedChanges' = hasUnstagedChanges(git)
          /\ git' = hasUnstagedChangesGit(git)
          /\ tree' = updateFiles(m, tree)
          /\ lastRule' = m
          /\ pc' = "commitRule"
  /\ UNCHANGED <<prevTree, migration, options, applied, answers, bash, disk, timer, result,
                 predicate>>

MigrateCalendarToDatePicker == MigrateNoOptions("calendar")
MigrateSidebarToDialog == MigrateNoOptions("sidebarDialog")

\* migrateCalendarToDatePicker(options: Schema = {})
MigrateCalendarToDatePickerSchema ==
  /\ pc = "start"
  /\ migration = "calendarSchema"
  /\ IF ~options.partOfParentMigration /\ ~answers.migrate
     THEN /\ pc' = "write"
          /\ UNCHANGED <<tree, git, hadUnstagedChanges, lastRule>>
     ELSE LET check == ~options.partOfParentMigration
                         /\ ~options.skipGitCheck
          IN /\ hadUnstagedChanges' =
                  IF check THEN hasUnstagedChanges(git) ELSE FALSE
             /\ git' = IF check THEN hasUnstagedChangesGit(git) ELSE git
             /\ tree' = updateFiles("calendarSchema", tree)
             /\ lastRule' = "calendarSchema"
             /\ pc' = IF options.partOfParentMigration \/ options.skipCommit
                      THEN "write" ELSE "commitRule"
  /\ UNCHANGED <<prevTree, migration, options, applied, answers, bash, disk, timer, result,
                 predicate>>

\* updateDialogComponent(options: Schema = {}) with a git check and a commit
\* that look at skipGitCheck and skipCommit only
UpdateDialogComponentSchemaAlone ==
  /\ pc = "start"
  /\ migration = "dialogSchema"
  /\ IF ~options.partOfParentMigration /\ ~answers.migrate
     THEN UNCHANGED <<tree, git, hadUnstagedChanges, lastRule>>
     ELSE LET check == ~options.skipGitCheck
              had == IF check THEN hasUnstagedChanges(git) ELSE FALSE
              g1 == IF check THEN hasUnstagedChangesGit(git) ELSE git
              commits == ~options.skipCommit /\ ~had /\ answers.commit
          IN /\ hadUnstagedChanges' = had
             /\ git' = IF commits THEN commitChangesGit(g1) ELSE g1
             /\ tree' = updateFiles("dialogSchema", tree)
             /\ lastRule' = "dialogSchema"
  /\ pc' = "write"
  /\ UNCHANGED <<prevTree, migration, options, applied, answers, bash, disk, timer,
                 result, predicate>>

\* updateDialogComponent(options: Schema = {}): the prompt, the git check,
\* the steps (they write what the steps of migrations/dialog write) and the
\* commit, which this migration runs itself and without a timer
UpdateDialogComponentSchema ==
  /\ pc = "start"
  /\ migration = "dialogSchema"
  /\ IF ~options.partOfParentMigration /\ ~answers.migrate
     THEN UNCHANGED <<tree, git, hadUnstagedChanges, lastRule>>
     ELSE LET check == ~options.partOfParentMigration
                         /\ ~options.skipGitCheck
              had == IF check THEN hasUnstagedChanges(git) ELSE FALSE
              g1 == IF check THEN hasUnstagedChangesGit(git) ELSE git
              commits == /\ ~(options.partOfParentMigration
                               \/ options.skipCommit)
                         /\ ~had
                         /\ answers.commit
          IN /\ hadUnstagedChanges' = had
             /\ git' = IF commits THEN commitChangesGit(g1) ELSE g1
             /\ tree' = updateFiles("dialogSchema", tree)
             /\ lastRule' = "dialogSchema"
  /\ pc' = "write"
  /\ UNCHANGED <<prevTree, migration, options, applied, answers, bash, disk, timer,
                 result, predicate>>

\* updateDialogComponent that runs its steps whatever the operator answers
MigrateDialogAnyAnswer ==
  /\ pc = "start"
  /\ migration = "dialog"
  /\ tree' = updateFiles("dialog", tree)
  /\ lastRule' = "dialog"
  /\ pc' = "write"
  /\ UNCHANGED <<prevTree, migration, options, applied, answers, bash, git, disk,
                 hadUnstagedChanges, timer, result, predicate>>

\* updateDialogComponent of migrations/dialog: the prompt and the steps
MigrateDialog ==
  /\ pc = "start"
  /\ migration = "dialog"
  /\ IF answers.confirmation # "run"
     THEN UNCHANGED <<tree, lastRule>>
     ELSE /\ tree' = updateFiles("dialog", tree)
          /\ lastRule' = "dialog"
  /\ pc' = "write"
  /\ UNCHANGED <<prevTree, migration, options, applied, answers, bash, git, disk,
                 hadUnstagedChanges, timer, result, predicate>>

\* the rule a migration returns: the commit prompt and setTimeout
CommitRule ==
  /\ pc = "commitRule"
  /\ timer' = (~hadUnstagedChanges /\ answers.commit)
  /\ pc' = "write"
  /\ UNCHANGED <<tree, prevTree, lastRule, migration, options, applied, answers, bash, git,
                 disk, hadUnstagedChanges, result, predicate>>

\* the callback handed to setTimeout(..., 1000)
CommitTimer ==
  /\ timer
  /\ git' = commitChangesGit(git)
  /\ timer' = FALSE
  /\ UNCHANGED <<tree, prevTree, lastRule, pc, migration, options, applied, answers, bash,
                 disk, hadUnstagedChanges, result, predicate>>

NextComponent ==
  \/ MigrateCalendarToDatePicker
  \/ MigrateCalendarToDatePickerSchema
  \/ MigrateSidebarToDialog
  \/ MigrateDialog
  \/ UpdateDialogComponentSchema
  \/ CommitRule
  \/ CommitTimer
  \/ WriteBack

SpecComponent == InitComponent /\ [][NextComponent]_vars

(***************************************************************************)
(* analyzeFilesForMigration, one visited file at a time                    *)
(***************************************************************************)
MaxFiles == 3      \* files in the tree that is scanned

ScanContents ==
  {<<>>, <<"CalendarModule">>, <<"<p-calendar", ">">>, <<".p-sidebar">>}

ScanTrees ==
  { t \in { [p \in Paths |->
               IF p \in TextPaths THEN text[p]
               ELSE IF p \in json
                    THEN (IF p = packageJsonPath THEN V17PackageJson
                          ELSE V17AngularJson)
                    ELSE NoJson] :
             text \in [TextPaths -> ScanContents \cup {NoFile}],
             json \in SUBSET (Paths \ TextPaths) } :
      Cardinality({p \in Paths : exists(t, p)}) <= MaxFiles }

InitScan ==
  /\ tree \in ScanTrees
  /\ prevTree = tree
  /\ disk = tree
  /\ lastRule = "none"
  /\ pc = "visit"
  /\ migration = "analyzeFilesForMigration"
  /\ options = NoOptions
  /\ answers = [migrate |-> TRUE, commit |-> TRUE, confirmation |-> "run"]
  /\ git \in GitStates({{}})
  /\ git.foreign = "none"
  /\ hadUnstagedChanges = FALSE
  /\ timer = FALSE
  /\ result = [visited |-> {}, paths |-> <<>>]
  /\ predicate \in PredicateNames
  /\ bash = NoBash
  /\ applied = {}

\* tree.root.visit calls the callback for a file not visited yet
VisitFile ==
  /\ pc = "visit"
  /\ \E filePath \in Paths :
       /\ exists(tree, filePath)
       /\ filePath \notin result.visited
       /\ result' =
            [visited |-> result.visited \cup {filePath},
             paths |-> IF VisitPushes(tree, predicate, filePath)
                       THEN Append(result.paths, filePath)
                       ELSE result.paths]
  /\ UNCHANGED <<tree, prevTree, lastRule, pc, migration, options, applied, answers, bash,
                 git, disk, hadUnstagedChanges, timer, predicate>>

\* every file was visited: `return result`
ReturnResult ==
  /\ pc = "visit"
  /\ \A filePath \in Paths : exists(tree, filePath) => filePath \in result.visited
  /\ pc' = "returned"
  /\ UNCHANGED <<tree, prevTree, lastRule, migration, options, applied, answers, bash, git,
                 disk, hadUnstagedChanges, timer, result, predicate>>

NextScan == VisitFile \/ ReturnResult

SpecScan == InitScan /\ [][NextScan]_vars

(***************************************************************************)
(* The bash script primeng18-migration.sh                                  *)
(*   bash.stack   the functions that were called and have not returned,    *)
(*                each with the position of its next statement             *)
(*   bash.steps   the update_ functions entered, in order                  *)
(*   bash.menus   the times the menu was shown                             *)
(*   bash.status  "running", "exit0", "exit1"                              *)
(*   bash.last    the last call of find_and_replace                        *)
(*   bash.all     the steps entered before the operator confirmed Run All  *)
(*                Migrations (-1: not confirmed)                           *)
(*   bash.completed  "All migrations completed." was printed               *)
(***************************************************************************)
MaxMenus == 1      \* times the operator selects an option in one run

\* read -n 1 -r and [[ $REPLY =~ ^[Yy]$ ]]
Replies == {"y", "Y", "n", ""}
Yes(reply) == reply \in {"y", "Y"}

\* the import paths and module classes of update_module_imports
bashModules ==
  << [path |-> "primeng/calendar", old |-> "CalendarModule",
      new |-> "DatePickerModule", newPath |-> "'primeng/datepicker'"],
     [path |-> "primeng/dropdown", old |-> "DropdownModule",
      new |-> "SelectModule", newPath |-> "'primeng/select'"],
     [path |-> "primeng/inputswitch", old |-> "InputSwitchModule",
      new |-> "ToggleSwitchModule", newPath |-> "'primeng/toggleswitch'"],
     [path |-> "primeng/overlaypanel", old |-> "OverlayPanelModule",
      new |-> "PopoverModule", newPath |-> "'primeng/popover'"],
     [path |-> "primeng/sidebar", old |-> "SidebarModule",
      new |-> "DrawerModule", newPath |-> "'primeng/drawer'"] >>

\* one call of find_and_replace: pattern and replacement, file_pattern
FnR(rx, glob) == [rx |-> rx, glob |-> glob]

\* "import.*from 'path'" -> "import { New } from 'newPath'"
bashImportCall(m) ==
  FnR([kind |-> "importLine", paths |-> {SingleQuoted(m.path)}, msg |-> FALSE,
       new |-> <<"import { ", m.new, " } from ", m.newPath>>], "*.ts")
\* "\\bOld\\b" -> "New"
bashWordCall(old, new, glob) ==
  FnR([kind |-> "word", old |-> old, new |-> new], glob)
\* a pattern without \b
bashLitCall(old, new, glob) ==
  FnR([kind |-> "lit", old |-> old, new |-> new], glob)
\* "<p-old" -> "<p-new" and "</p-old>" -> "</p-new>"
bashOpenCall(m) ==
  bashLitCall(<<"<" \o m.old>>, <<"<" \o m.new>>, "*.html")
bashCloseCall(m) ==
  bashLitCall(<<"</" \o m.old \o ">">>, <<"</" \o m.new \o ">">>, "*.html")
\* "p-selectButton" -> "p-selectbutton"
bashSelectButtonCall ==
  FnR([kind |-> "within",
       map |-> ("<p-selectButton" :> "<p-selectbutton")
                 @@ ("</p-selectButton>" :> "</p-selectbutton>")], "*.html")
\* '\\[showTransitionOptions\\]="[^"]*"' in single quotes: a backslash, one
\* character of the bracket expression, ="..."; no chunk holds a backslash
bashTransitionCall == FnR([kind |-> "backslash"], "*.html")

\* the calls of find_and_replace each function makes, in order
Calls(fn) ==
  CASE fn = "update_module_imports" ->
         [k \in 1..5 |-> bashImportCall(bashModules[k])]
           \o [k \in 1..5 |->
                 bashWordCall(<<bashModules[k].old>>, <<bashModules[k].new>>,
                              "*.ts")]
    [] fn = "update_component_selectors" ->
         [k \in 1..10 |->
            IF k % 2 = 1 THEN bashOpenCall(selectorMappings[(k + 1) \div 2])
            ELSE bashCloseCall(selectorMappings[k \div 2])]
           \o <<bashSelectButtonCall>>
    [] fn = "update_css_classes" ->
         << bashLitCall(<<"p-", "component">>, <<"p-", "element">>,
                        "*.{html,scss,css}"),
            bashLitCall(<<"p-", "inputtext">>, <<"p-", "input">>,
                        "*.{html,scss,css}"),
            bashWordCall(<<"p-", "link">>, <<>>, "*.{html,scss,css}"),
            bashWordCall(<<"p-", "highlight">>, <<>>, "*.{html,scss,css}"),
            bashWordCall(<<"p-", "fluid">>, <<>>, "*.{html,scss,css}") >>
    [] fn = "update_component_properties" ->
         <<bashTransitionCall, bashTransitionCall>>
    [] fn = "update_dialog_component" ->
         << FnR([kind |-> "within",
                 map |-> ("[modal]=\"" :> "[closeOnEscape]=\"")], "*.html") >>
    [] fn = "update_select_button" -> <<bashSelectButtonCall>>
    [] fn = "update_interface_names" ->
         << FnR([kind |-> "importLine", paths |-> {"'primeng/api'"},
                 msg |-> TRUE,
                 new |-> <<"import { ", "ToastMessageOptions", " } from ",
                           "'primeng/api'">>], "*.ts"),
            bashWordCall(<<"Message">>, <<"ToastMessageOptions">>, "*.ts") >>
    [] fn = "update_directives" ->
         << bashWordCall(<<"pAnimate">>, <<"pAnimate", "OnScroll">>,
                         "*.html"),
            FnR([kind |-> "block", tag |-> "<p-defer", close |-> "</p-defer>",
                 new |-> <<NoteDefer>>], "*.html") >>
    [] OTHER -> <<>>

\* find src -type f -name "$file_pattern": the pattern is quoted, so the
\* braces of "*.{html,scss,css}" are not expanded and name no file
FindFiles(d, glob) ==
  {p \in TextPaths :
     /\ p # MdPath
     /\ d[p] # NoFile
     /\ CASE glob = "*.ts" -> endsWith(p, ".ts")
          [] glob = "*.html" -> endsWith(p, ".html")
          [] OTHER -> FALSE}

\* grep -l "$pattern" <the files found>
GrepFiles(d, call) ==
  {p \in FindFiles(d, call.glob) : Test(call.rx, d[p])}

\* for file in $files; do sed -i "s|$pattern|$replacement|g" "$file"; done
SedFiles(d, call, files) ==
  [p \in Paths |-> IF p \in files THEN ReplaceAll(call.rx, d[p]) ELSE d[p]]

\* commit_changes: git add . and git commit, whatever git add returned
commit_changes(g) ==
  LET g1 == Exec(Exec(g, "git add ."), "git commit") IN
  IF g.fails \cap {"add", "commit"} # {} \/ ~Porcelain(g1) THEN g1
  ELSE Commit(g1)

\* the ten steps, in the order of run_all_migrations
BashSteps ==
  <<"update_package_dependencies", "update_theme_imports",
    "update_module_imports", "update_component_selectors",
    "update_css_classes", "update_component_properties",
    "update_dialog_component", "update_select_button",
    "update_interface_names", "update_directives">>

Options == {"0", "1", "2", "3", "4", "5", "6", "7", "8", "9", "10", "11", "x"}

\* handle_option: the function an option calls
handle_option(option) ==
  CASE option = "1" -> "update_module_imports"
    [] option = "2" -> "update_component_selectors"
    [] option = "3" -> "update_css_classes"
    [] option = "4" -> "update_component_properties"
    [] option = "5" -> "update_dialog_component"
    [] option = "6" -> "update_select_button"
    [] option = "7" -> "update_interface_names"
    [] option = "8" -> "update_directives"
    [] option = "9" -> "update_package_dependencies"
    [] option = "10" -> "update_theme_imports"
    [] option = "11" -> "run_all_migrations"
    [] option = "0" -> "exit"
    [] OTHER -> "show_menu"

\* positions in run_all_migrations: 0 is the prompt, k in 1..10 the call of
\* step k, RunAllEnd the echo and exit 0, RunAllDeclined the show_menu of
\* the branch taken when the operator declines
RunAllEnd == Len(BashSteps) + 1
RunAllDeclined == Len(BashSteps) + 2

Frame(fn, at) == [fn |-> fn, at |-> at]
Top == bash.stack[Len(bash.stack)]
Running == bash.status = "running" /\ bash.stack # <<>>
\* the function on top moves to its next statement
Advance(b) == [b EXCEPT !.stack[Len(b.stack)].at = @ + 1]
\* the function on top calls fn and goes on behind the call when fn returns
Call(b, fn, at) == [Advance(b) EXCEPT !.stack = Append(@, Frame(fn, at))]
\* an update_ function is entered
Enter(b, fn) == [Call(b, fn, 1) EXCEPT !.steps = Append(@, fn)]

\* the position of a function's closing show_menu
MenuAt(fn) ==
  IF fn \in {"update_package_dependencies", "update_theme_imports"} THEN 2
  ELSE Len(Calls(fn)) + 1

\* the next statement of the function on top is a call of show_menu
AtShowMenu(f) ==
  \/ f.fn = "main" /\ f.at = 2
  \/ f.fn = "show_menu"
  \/ f.fn = "run_all_migrations" /\ f.at = RunAllDeclined
  \/ \E k \in 1..Len(BashSteps) : f.fn = BashSteps[k] /\ f.at = MenuAt(f.fn)

\* the script starts: check_unstaged_changes, called from the main entry
CheckUnstagedChanges ==
  /\ Running /\ Top = Frame("main", 1)
  /\ LET g1 == Exec(git, "git status --porcelain") IN
     IF "status" \in git.fails \/ ~Porcelain(git)
     THEN git' = g1 /\ bash' = Advance(bash)
     ELSE \E reply \in Replies :
            IF Yes(reply)
            THEN /\ git' = v18_stashChangesGit(g1)
                 /\ bash' = IF "stash" \in git.fails
                            THEN [bash EXCEPT !.status = "exit1"]
                            ELSE Advance(bash)
            ELSE git' = g1 /\ bash' = [bash EXCEPT !.status = "exit1"]
  /\ UNCHANGED <<tree, prevTree, lastRule, pc, migration, options, applied, answers,
                 disk, hadUnstagedChanges, timer, result, predicate>>

\* show_menu reads an option and hands it to handle_option
ShowMenu ==
  /\ Running /\ AtShowMenu(Top)
  /\ bash.menus < MaxMenus
  /\ \E option \in Options :
       LET fn == handle_option(option)
           b == [Call(bash, "show_menu", 1) EXCEPT !.menus = @ + 1]
       IN bash' =
            CASE fn = "exit" -> [b EXCEPT !.status = "exit0"]
              [] fn = "show_menu" -> b
              [] fn = "run_all_migrations" -> Call(b, fn, 0)
              [] OTHER -> Enter(b, fn)
  /\ UNCHANGED <<tree, prevTree, lastRule, pc, migration, options, applied, answers,
                 git, disk, hadUnstagedChanges, timer, result, predicate>>

\* run_all_migrations, from the statement it stands at
RunAllMigrations ==
  /\ Running /\ Top.fn = "run_all_migrations"
  /\ Top.at <= RunAllEnd
  /\ \E reply \in Replies :
       bash' =
         IF Top.at = 0
         THEN IF Yes(reply)
              THEN [Advance(bash) EXCEPT !.all = Len(bash.steps)]
              ELSE [bash EXCEPT
                      !.stack[Len(bash.stack)].at = RunAllDeclined]
         ELSE IF Top.at < RunAllEnd THEN Enter(bash, BashSteps[Top.at])
         ELSE [bash EXCEPT !.completed = TRUE, !.status = "exit0"]
  /\ UNCHANGED <<tree, prevTree, lastRule, pc, migration, options, applied, answers,
                 git, disk, hadUnstagedChanges, timer, result, predicate>>

\* one call of find_and_replace by the function on top.  With no file
\* found, grep has no file operand and reads the terminal: typed tells
\* whether a line the operator types matches, and grep then prints
\* "(standard input)", which names no file sed could edit.
FindAndReplace ==
  /\ Running /\ Top.at \in 1..Len(Calls(Top.fn))
  /\ \E typed \in BOOLEAN : \E reply \in Replies :
       LET call == Calls(Top.fn)[Top.at]
           found == FindFiles(disk, call.glob)
           files == GrepFiles(disk, call)
           prompted == files # {} \/ (found = {} /\ typed)
           proceed == prompted /\ Yes(reply)
           sed == SedFiles(disk, call, files)
       IN /\ found # {} => ~typed
          /\ ~prompted => reply = ""
          /\ disk' = IF proceed THEN sed ELSE disk
          /\ git' = IF proceed
                    THEN commit_changes(
                           [git EXCEPT !.migrated = @ \/ sed # disk])
                    ELSE git
          /\ bash' = [Advance(bash) EXCEPT
                        !.last = [fn |-> Top.fn, at |-> Top.at,
                                  prompted |-> prompted, reply |-> reply,
                                  logLen |-> Len(git.log)]]
  /\ prevTree' = disk
  /\ UNCHANGED <<tree, lastRule, pc, migration, options, applied, answers,
                 hadUnstagedChanges, timer, result, predicate>>

\* jq '.dependencies.name = "version"' (jq is installed) or
\* sed -i 's/"name": "[^"]*"/"name": "version"/g'; spaced tells whether the
\* file writes one space after the colon, as JSON.stringify(v, null, 2) does
SetVersion(packageJson, name, version, jq, spaced) ==
  IF jq
  THEN Stringify([packageJson EXCEPT
         !.hasDependencies = TRUE,
         !.dependencies =
           [(IF packageJson.hasDependencies THEN @
             ELSE [n \in {"primeng", "primeflex"} |-> Undefined])
              EXCEPT ![name] = version]])
  ELSE IF spaced /\ packageJson.dependencies[name] # Undefined
       THEN [packageJson EXCEPT !.dependencies[name] = version]
       ELSE packageJson

UpdatePackageDependencies ==
  /\ Running /\ Top = Frame("update_package_dependencies", 1)
  /\ IF ~exists(disk, packageJsonPath)
     THEN UNCHANGED <<disk, git>>
     ELSE \E jq \in BOOLEAN, spaced \in BOOLEAN :
          \E reply1 \in Replies, reply2 \in Replies :
            LET p0 == disk[packageJsonPath]
                p1 == IF Yes(reply1)
                      THEN SetVersion(p0, "primeng", "^18.0.0", jq, spaced)
                      ELSE p0
                g1 == IF Yes(reply1)
                      THEN commit_changes(
                             [git EXCEPT !.migrated = @ \/ p1 # p0])
                      ELSE git
                \* grep -q '"primeflex"' package.json
                primeflex == p1.dependencies["primeflex"] # Undefined
                p2 == IF primeflex /\ Yes(reply2)
                      THEN SetVersion(p1, "primeflex", "^4.0.0", jq, spaced)
                      ELSE p1
                g2 == IF primeflex /\ Yes(reply2)
                      THEN commit_changes(
                             [g1 EXCEPT !.migrated = @ \/ p2 # p1])
                      ELSE g1
            IN /\ p0.pretty => spaced
               /\ jq => spaced
               /\ ~primeflex => reply2 = ""
               /\ disk' = [disk EXCEPT ![packageJsonPath] = p2]
               /\ git' = g2
  /\ bash' = Advance(bash)
  /\ UNCHANGED <<tree, prevTree, lastRule, pc, migration, options, applied, answers,
                 hadUnstagedChanges, timer, result, predicate>>

\* sed -i '/primeng\/resources/d' on one styles array written one entry a
\* line: the lines of the deprecated strings go, and so does the only line
\* inside ObjectStyle
EmptyObjectStyle == "{ }"
DeleteStyleLines(styles) ==
  LET kept == SelectSeq(styles, KeepStyle) IN
  [k \in 1..Len(kept) |->
     IF kept[k] = ObjectStyle THEN EmptyObjectStyle ELSE kept[k]]
\* the entry before a deleted last line keeps its comma
TrailingComma(styles) ==
  /\ Len(styles) > 1
  /\ IsDeprecatedStyle(styles[Len(styles)])
  /\ \E k \in 1..(Len(styles) - 1) : KeepStyle(styles[k])
HasThemeLine(angularJson) ==
  \E k \in 1..Len(angularJson.projects) :
    \E e \in 1..Len(angularJson.projects[k].styles) :
      angularJson.projects[k].styles[e] \in PrimeNgStyles \cup {ObjectStyle}
\* oneLine: the whole file is one line; a file that was no JSON stays one
DeleteThemeLines(angularJson, oneLine) ==
  IF angularJson = BadJson THEN BadJson
  ELSE IF ~HasThemeLine(angularJson) THEN angularJson
  ELSE IF oneLine
          \/ \E k \in 1..Len(angularJson.projects) :
               TrailingComma(angularJson.projects[k].styles)
       THEN BadJson
  ELSE [angularJson EXCEPT
          !.projects =
            [k \in 1..Len(angularJson.projects) |->
               [angularJson.projects[k] EXCEPT
                  !.styles = DeleteStyleLines(@)]],
          !.pretty = angularJson.pretty
                       /\ \A k \in 1..Len(angularJson.projects) :
                            \A e \in 1..Len(angularJson.projects[k].styles) :
                              angularJson.projects[k].styles[e] # ObjectStyle]

\* cp angular.json angular.json.bak leaves a new file for git add
UpdateThemeImports ==
  /\ Running /\ Top = Frame("update_theme_imports", 1)
  /\ IF ~exists(disk, angularJsonPath)
     THEN UNCHANGED <<disk, git>>
     ELSE \E reply \in Replies : \E oneLine \in BOOLEAN :
            /\ (disk[angularJsonPath] = BadJson
                  \/ disk[angularJsonPath].pretty) => ~oneLine
            /\ ~Yes(reply) => ~oneLine
            /\ IF Yes(reply)
               THEN /\ disk' = [disk EXCEPT ![angularJsonPath] =
                                  DeleteThemeLines(@, oneLine)]
                    /\ git' = commit_changes([git EXCEPT !.migrated = TRUE])
               ELSE UNCHANGED <<disk, git>>
  /\ bash' = Advance(bash)
  /\ UNCHANGED <<tree, prevTree, lastRule, pc, migration, options, applied, answers,
                 hadUnstagedChanges, timer, result, predicate>>

\* the working directories the script is started in: no file at all, a
\* Calendar application, an application with a Message import, a dialog, a
\* p-defer and a style sheet
BashTrees ==
  { EmptyTree,
    [EmptyTree EXCEPT
       ![TsPath] = ImportStatement("CalendarModule", "'primeng/calendar'"),
       ![HtmlPath] = <<"<p-calendar", ">", "</p-calendar>">>,
       ![packageJsonPath] = V17PackageJson,
       ![angularJsonPath] = V17AngularJson],
    [EmptyTree EXCEPT
       ![TsPath] = <<"import { ", "Message", " } from ", "'primeng/api'",
                     ";">>,
       ![HtmlPath] = <<"[modal]=\"", "true", "\"", "<p-defer", ">", "x",
                       "</p-defer>">>,
       ![ScssPath] = <<".", "p-", "component", " { width: 100%; }">>,
       ![packageJsonPath] = Stringify(V17PackageJson),
       ![angularJsonPath] = Stringify(V17AngularJson)] }

InitBash ==
  /\ disk \in BashTrees
  /\ tree = disk
  /\ prevTree = disk
  /\ lastRule = "none"
  /\ pc = "bash"
  /\ migration = "primeng18-migration.sh"
  /\ options = NoOptions
  /\ answers = [migrate |-> TRUE, commit |-> TRUE, confirmation |-> "run"]
  /\ git \in GitStates({{}, {"status"}, {"stash"}, {"add"}, {"commit"}})
  /\ hadUnstagedChanges = FALSE
  /\ timer = FALSE
  /\ result = [visited |-> {}, paths |-> <<>>]
  /\ predicate = "none"
  /\ bash = [NoBash EXCEPT !.stack = <<Frame("main", 1)>>,
                           !.status = "running"]
  /\ applied = {}

NextBash ==
  \/ CheckUnstagedChanges
  \/ ShowMenu
  \/ RunAllMigrations
  \/ FindAndReplace
  \/ UpdatePackageDependencies
  \/ UpdateThemeImports

SpecBash == InitBash /\ [][NextBash]_vars

\* the operations that ask the operator before they change a file: the
\* component migrations and the script
InitPrompted == InitComponent \/ InitBash
NextPrompted == NextComponent \/ NextBash
SpecPrompted == InitPrompted /\ [][NextPrompted]_vars

(***************************************************************************)
(* migrateSidebarToDrawer: removeDeprecatedSizeProperty                    *)
(***************************************************************************)
SizeTags == {"<p-sidebar", "<p-drawer"}
SizeOpens == {"[size]=\"", "size=\""}
boundSizeRegex == [kind |-> "sizeAttr", open |-> "[size]=\""]
plainSizeRegex == [kind |-> "sizeAttr", open |-> "size=\""]
drawerNoteRegex == [kind |-> "tagNote", tag |-> "<p-drawer", note |-> NoteSize]

\* <(p-sidebar|p-drawer)[^>]*?\s+(?:\[size\]|\bsize\b)=['"][^'"]*['"][^>]*?>
\* starting at chunk i: the white space chunks in front of a size attribute
\* at which the pattern can go on to its end
SizeAttrsOf(s, i) ==
  IF s[i] \notin SizeTags THEN {}
  ELSE {k \in (i + 1)..(Len(s) - 1) :
          /\ \A m \in (i + 1)..(k - 1) : ~GtEnd(s[m])
          /\ SpaceOnly(s[k])
          /\ s[k + 1] \in SizeOpens
          /\ FirstAnyQuote(s, k + 2) > 0
          /\ FirstGt(s, FirstAnyQuote(s, k + 2)) > 0}
\* the number of chunks the pattern consumes at chunk i (0: no match)
SizeTagLen(s, i) ==
  IF SizeAttrsOf(s, i) = {} THEN 0
  ELSE LET k == Min(SizeAttrsOf(s, i)) IN
       FirstGt(s, FirstAnyQuote(s, k + 2)) - i + 1

\* the callback: match.replace(/\s+\[size\]=['"][^'"]*['"]/g, '')
\*                     .replace(/\s+size=['"][^'"]*['"]/g, '')
StripSize(match) == ReplaceEach(<<boundSizeRegex, plainSizeRegex>>, 1, match)

RECURSIVE RemoveSizeFrom(_, _)
RemoveSizeFrom(s, i) ==
  IF i > Len(s) THEN <<>>
  ELSE LET n == SizeTagLen(s, i) IN
       IF n > 0
       THEN StripSize(SubSeq(s, i, i + n - 1)) \o RemoveSizeFrom(s, i + n)
       ELSE <<s[i]>> \o RemoveSizeFrom(s, i + 1)

removeDeprecatedSizeProperty(t) ==
  LET Update(content) == ReplaceAll(drawerNoteRegex, RemoveSizeFrom(content, 1))
  IN OverwriteFiles(t, analyzeFilesForMigration(t, "sizeProperty"), Update)

(***************************************************************************)
(* migrateChipsToAutoComplete: updateComponentSelectors                    *)
(***************************************************************************)
chipsSelectorRegex == [kind |-> "within", map |-> ChipsSelectorForms]
\* (<p-autoComplete[^>]*?)> -> $1 [multiple]="true">
multipleRegex ==
  [kind |-> "tagAttr", tag |-> "<p-autoComplete",
   attr |-> <<" ", "[multiple]=\"", "true", "\"">>]
\* (<p-autoComplete[^>]*?>) -> $1 NoteChips
chipsNoteRegex ==
  [kind |-> "tagNote", tag |-> "<p-autoComplete", note |-> NoteChips]
chipsPropsRegex == [kind |-> "chipsProps", tag |-> "<p-autoComplete"]

chips_updateComponentSelectors(t) ==
  LET Update(content) ==
        ReplaceEach(<<chipsSelectorRegex, multipleRegex, chipsNoteRegex,
                      chipsPropsRegex>>, 1, content) IN
  OverwriteFiles(t, analyzeFilesForMigration(t, "chipsSelectors"), Update)

(***************************************************************************)
(* Steps of the component migrations, each applied to an input tree        *)
(***************************************************************************)
MaxAttrs == 2      \* attributes of an element of an input template

MigrationSteps ==
  {"updateMessageInterface", "removeDeprecatedSizeProperty",
   "chipsUpdateComponentSelectors", "sidebarDialogUpdateComponentProperties"}

ApplyStep(step, t) ==
  CASE step = "updateMessageInterface" -> messages_updateMessageInterface(t)
    [] step = "removeDeprecatedSizeProperty" -> removeDeprecatedSizeProperty(t)
    [] step = "chipsUpdateComponentSelectors" ->
         chips_updateComponentSelectors(t)
    [] step = "sidebarDialogUpdateComponentProperties" ->
         sidebarDialog_updateComponentProperties(t)

\* the attributes of the elements of a template: white space, the name with
\* =", the value, the closing "
SizeAttributes ==
  { <<" ", "[size]=\"", "'large'", "\"">>, <<" ", "size=\"", "large", "\"">>,
    <<" ", "position=\"", "left", "\"">>,
    <<" ", "data-size=\"", "large", "\"">> }

RECURSIVE AttributeLists(_, _)
AttributeLists(attrs, n) ==
  IF n = 0 THEN {<<>>}
  ELSE AttributeLists(attrs, n - 1)
         \cup {l \o a : l \in AttributeLists(attrs, n - 1), a \in attrs}

\* an opening tag with its attributes
SizeHtmlInputs ==
  { <<name>> \o l \o <<">">> :
      name \in {"<p-sidebar", "<p-drawer", "<div"},
      l \in AttributeLists(SizeAttributes, MaxAttrs) }

ChipsAttributes ==
  { <<" ", "field=\"", "x", "\"">>, <<" ", "(onAdd)=\"", "x", "\"">>,
    <<" ", "(onRemove)=\"", "x", "\"">>, <<" ", "name=\"", "x", "\"">> }

\* a p-chips element: its opening tag, with or without its closing tag
ChipsHtmlInputs ==
  { <<"<p-chips">> \o l \o <<">">> \o close :
      l \in AttributeLists(ChipsAttributes, MaxAttrs),
      close \in {<<>>, <<"</p-chips>">>} }

SidebarAttributes ==
  { <<" ", "[position]=\"", "left", "\"">>,
    <<" ", "[fullScreen]=\"", "true", "\"">>,
    <<" ", "name=\"", "x", "\"">> }

SidebarHtmlInputs ==
  { <<name>> \o l \o <<">">> :
      name \in {"<p-sidebar", "<p-dialog"},
      l \in AttributeLists(SidebarAttributes, MaxAttrs) }

StepInputs ==
  {[EmptyTree EXCEPT ![TsPath] = c] : c \in MessageTsInputs}
    \cup {[EmptyTree EXCEPT ![HtmlPath] = c] :
            c \in SizeHtmlInputs \cup ChipsHtmlInputs \cup SidebarHtmlInputs}

InitSteps ==
  /\ tree \in StepInputs
  /\ prevTree = tree
  /\ disk = tree
  /\ lastRule = "none"
  /\ pc = "ready"
  /\ migration = "step"
  /\ options = NoOptions
  /\ answers = [migrate |-> TRUE, commit |-> TRUE, confirmation |-> "run"]
  /\ git = [foreign |-> "none", migrated |-> FALSE, fails |-> {},
            log |-> <<>>, commits |-> <<>>]
  /\ hadUnstagedChanges = FALSE
  /\ timer = FALSE
  /\ result = [visited |-> {}, paths |-> <<>>]
  /\ predicate = "none"
  /\ bash = NoBash
  /\ applied = {}

RunStep(step) ==
  /\ pc = "ready"
  /\ tree' = ApplyStep(step, tree)
  /\ prevTree' = tree
  /\ lastRule' = step
  /\ pc' = "applied"
  /\ UNCHANGED <<migration, options, applied, answers, bash, git, disk,
                 hadUnstagedChanges, timer, result, predicate>>

RunUpdateMessageInterface == RunStep("updateMessageInterface")
RunRemoveDeprecatedSizeProperty == RunStep("removeDeprecatedSizeProperty")
RunChipsUpdateComponentSelectors == RunStep("chipsUpdateComponentSelectors")
RunSidebarDialogUpdateComponentProperties ==
  RunStep("sidebarDialogUpdateComponentProperties")

NextSteps ==
  \/ RunUpdateMessageInterface
  \/ RunRemoveDeprecatedSizeProperty
  \/ RunChipsUpdateComponentSelectors
  \/ RunSidebarDialogUpdateComponentProperties

SpecSteps == InitSteps /\ [][NextSteps]_vars

(***************************************************************************)
(* Properties of the rules of migrateToV18                                 *)
(***************************************************************************)
TextRules == V18Rules \ {"updateDependencies", "updateAngularConfig"}

\* the patterns of a rule
RulePatterns(rule) ==
  CASE rule = "updateModuleImports" ->
         {importRegex(moduleUpdates[k]) : k \in 1..Len(moduleUpdates)}
           \cup {messageImportRegex, messageRefRegex}
    [] rule = "updateComponentSelectors" ->
         {openingTagRegex(selectorMappings[k]) :
            k \in 1..Len(selectorMappings)}
           \cup {closingTagRegex(selectorMappings[k]) :
                   k \in 1..Len(selectorMappings)}
    [] rule = "updateCssClasses" ->
         {classRegex(cssClassMappings[k]) : k \in 1..Len(cssClassMappings)}
    [] rule = "updateComponentProperties" ->
         {bindingRegex(propertyMappings[k]) : k \in 1..Len(propertyMappings)}
           \cup {attrRegex(propertyMappings[k]) :
                   k \in 1..Len(propertyMappings)}
    [] rule = "updateDialogComponent" ->
         {modalBindingRegex, modalAttrRegex, modalPropertyRegex}
    [] rule = "updateDirectives" ->
         {directiveRegex(directiveMappings[k]) :
            k \in 1..Len(directiveMappings)}
    [] OTHER -> {}

NoMatch(rule, content) == \A rx \in RulePatterns(rule) : ~Test(rx, content)

\* C1: a text rule of migrateToV18 leaves every file that contains no match
\* of the rule's patterns exactly as it was.
C1_NoMatchUnchanged ==
  (pc = "applied" /\ lastRule \in TextRules) =>
    \A p \in TextPaths :
      (prevTree[p] # NoFile /\ NoMatch(lastRule, prevTree[p])) =>
        tree[p] = prevTree[p]

\* a text rule ran on a file that is not empty, has one of the rule's file
\* types and contains no match of the rule
C1_Witness ==
  /\ pc = "applied"
  /\ lastRule = "updateCssClasses"
  /\ prevTree[ScssPath] = <<".", "p-", "link", "fluid">>
  /\ NoMatch(lastRule, prevTree[ScssPath])
  /\ tree[ScssPath] = prevTree[ScssPath]

\* C2: applying a rule of migrateToV18 a second time changes nothing.
C2_RuleIdempotent ==
  pc = "applied" => ApplyRule(lastRule, tree) = tree

OldOpenChunks ==
  {OpenChunk(selectorMappings[k].old) : k \in 1..Len(selectorMappings)}
OldCloseChunks ==
  {CloseChunk(selectorMappings[k].old) : k \in 1..Len(selectorMappings)}
NewOpenOf(c) ==
  OpenChunk(selectorMappings[
    CHOOSE k \in 1..Len(selectorMappings) :
      c = OpenChunk(selectorMappings[k].old)].new)
NewCloseOf(c) ==
  CloseChunk(selectorMappings[
    CHOOSE k \in 1..Len(selectorMappings) :
      c = CloseChunk(selectorMappings[k].old)].new)

\* an opening tag of an old selector starts at chunk i: the tag name is
\* followed by '>', by '/>', or by white space and, later, a '>'
IsOpeningTag(s, i) ==
  /\ s[i] \in OldOpenChunks
  /\ i + 1 <= Len(s)
  /\ \/ s[i + 1] = ">"
     \/ (i + 2 <= Len(s) /\ s[i + 1] = "/" /\ s[i + 2] = ">")
     \/ (SpaceStart(s[i + 1]) /\ \E j \in (i + 1)..Len(s) : GtEnd(s[j]))
\* the chunk with the '>' that ends the opening tag starting at chunk i
TagEnd(s, i) ==
  IF s[i + 1] = ">" THEN i + 1
  ELSE IF s[i + 1] = "/" THEN i + 2
  ELSE Min({j \in (i + 1)..Len(s) : GtEnd(s[j])})

\* the content with the name of every old tag replaced and nothing else
\* touched: the text from an opening tag's name to its '>' is its attribute
\* text and is copied
RECURSIVE RenamedTagsFrom(_, _)
RenamedTagsFrom(s, i) ==
  IF i > Len(s) THEN <<>>
  ELSE IF IsOpeningTag(s, i)
       THEN <<NewOpenOf(s[i])>> \o SubSeq(s, i + 1, TagEnd(s, i))
              \o RenamedTagsFrom(s, TagEnd(s, i) + 1)
  ELSE IF s[i] \in OldCloseChunks
       THEN <<NewCloseOf(s[i])>> \o RenamedTagsFrom(s, i + 1)
  ELSE <<s[i]>> \o RenamedTagsFrom(s, i + 1)

RenamedTags(s) == RenamedTagsFrom(s, 1)

\* the content without the '/' of self-closing tags: that '/' is neither
\* attribute text nor text outside the tag
RECURSIVE WithoutSelfClose(_)
WithoutSelfClose(s) ==
  IF s = <<>> THEN <<>>
  ELSE IF Len(s) >= 2 /\ s[1] = "/" /\ s[2] = ">"
       THEN WithoutSelfClose(Tail(s))
       ELSE <<s[1]>> \o WithoutSelfClose(Tail(s))

\* a tag of an old selector begins inside an opening tag of an old selector
NestedTag(s) ==
  \E i \in 1..Len(s) :
    /\ IsOpeningTag(s, i)
    /\ \E k \in (i + 1)..TagEnd(s, i) :
         s[k] \in OldOpenChunks \cup OldCloseChunks

DropdownScenario == <<"<p-dropdown", " [style]=\"x\"", ">", "</p-dropdown>">>

SelectorsRenamedIn(p) ==
  WithoutSelfClose(tree[p]) = WithoutSelfClose(RenamedTags(prevTree[p]))

RemovedClasses == << <<"p-", "link">>, <<"p-", "highlight">>,
                     <<"p-", "fluid">> >>
RenamedClassPatterns ==
  {classRegex(cssClassMappings[1]), classRegex(cssClassMappings[2])}

RECURSIVE DeleteClasses(_, _)
DeleteClasses(k, s) ==
  IF k > Len(RemovedClasses) THEN s
  ELSE DeleteClasses(k + 1,
         ReplaceAll([kind |-> "word", old |-> RemovedClasses[k],
                     new |-> <<>>], s))

FluidScenario == <<".", "p-", "fluid", " { width: 100%; }">>

\* C7: updateCssClasses deletes the class names p-link, p-highlight and
\* p-fluid from .html, .scss, .css and .ts files and writes nothing in
\* their place; `.p-fluid { width: 100%; }` loses its p-fluid token.
C7_UtilityClassesRemoved ==
  (pc = "applied" /\ lastRule = "updateCssClasses") =>
    \A p \in {HtmlPath, ScssPath, CssPath, TsPath} :
      (/\ prevTree[p] # NoFile
       /\ \A rx \in RenamedClassPatterns : ~Test(rx, prevTree[p])) =>
        tree[p] = DeleteClasses(1, prevTree[p])

\* C8: removing p-link from class="p-link my-button" leaves exactly
\* class="my-button".
C8_CleanClassList ==
  (/\ pc = "applied"
   /\ lastRule = "updateCssClasses"
   /\ prevTree[HtmlPath] = <<"class=\"", "p-", "link", " my-button\"">>) =>
    tree[HtmlPath] = <<"class=\"", "my-button\"">>

(***************************************************************************)
(* Properties of the component migrations, of the chain of migrateToV18    *)
(* and of analyzeFilesForMigration                                         *)
(***************************************************************************)
\* the literal sub occurs in the content s
Contains(s, sub) == s # NoFile /\ \E i \in 1..Len(s) : LitAt(s, i, sub)

\* C3: running a confirmed component migration a second time, on its own
\* output, changes no file.
C3_MigrationIdempotent ==
  (migration \in ComponentMigrations /\ lastRule = migration) =>
    updateFiles(migration, tree) = tree

\* the chunks that refer to CalendarModule or to 'primeng/calendar'
CalendarReferences == {"CalendarModule"} \cup Quoted("primeng/calendar")

\* C5: after the confirmed migrateCalendarToDatePicker a .ts file that
\* contained import { CalendarModule } from 'primeng/calendar'; contains
\* import { DatePickerModule } from 'primeng/datepicker'; instead, and no
\* reference to CalendarModule or 'primeng/calendar' is left in it.
C5_CalendarImportRenamed ==
  (/\ migration \in {"calendar", "calendarSchema"}
   /\ lastRule = migration
   /\ Contains(prevTree[TsPath], CalendarScenario)) =>
    /\ Contains(tree[TsPath],
                ImportStatement("DatePickerModule", "'primeng/datepicker'"))
    /\ ~includes(tree[TsPath], CalendarReferences)

\* the v18 names of the module classes, by position in moduleUpdates
NewModules ==
  <<"DatePickerModule", "SelectModule", "ToggleSwitchModule",
    "PopoverModule", "DrawerModule">>

\* C6: after the whole chain of migrateToV18, for each of the five renamed
\* components, a .ts file that contained import { OldModule } from 'old';
\* contains import { NewModule } from 'new';.
C6_ChainRenamesImports ==
  (migration = "migrateToV18" /\ lastRule = "updateDirectives") =>
    \A k \in 1..Len(moduleUpdates) :
      Contains(prevTree[TsPath],
               ImportStatement(OldModules[k],
                               SingleQuoted(moduleUpdates[k].old))) =>
        Contains(tree[TsPath],
                 ImportStatement(NewModules[k], moduleUpdates[k].new))

\* the predicates of the steps of a component migration
StepPredicates(m) ==
  IF m = "sidebarDialog"
  THEN {"sidebarImports", "sidebarSelectors", "sidebarCss",
        "sidebarProperties"}
  ELSE IF m \in {"dialog", "dialogSchema"}
  THEN {"dialogImports", "dialogProperties", "dialogCss"}
  ELSE {"calendarImports", "calendarSelectors", "calendarCss"}

NoFileMatches(m, t) ==
  \A name \in StepPredicates(m) : analyzeFilesForMigration(t, name) = {}

\* C9: a confirmed component migration that runs on a tree in which no file
\* matches changes no file and creates no git commit, whatever the options
\* and the answer to the commit prompt.
C9_NoMatchNoCommit ==
  (/\ migration \in ComponentMigrations
   /\ lastRule = migration
   /\ NoFileMatches(migration, prevTree)) =>
    /\ tree = prevTree
    /\ git.commits = <<>>

\* the files the scan is to return: a name that ends in .ts, .html, .scss
\* or .css, a readable content, the predicate true
ScanExpected ==
  {p \in {TsPath, HtmlPath, ScssPath, CssPath} :
     tree[p] # NoFile /\ Predicate(predicate, p, tree[p])}

\* C10: analyzeFilesForMigration returns exactly the paths of the files
\* with one of the four extensions whose content is readable and satisfies
\* the predicate, each path once, and leaves the tree as it was.
C10_ScanResult ==
  (migration = "analyzeFilesForMigration" /\ pc = "returned") =>
    /\ {result.paths[i] : i \in 1..Len(result.paths)} = ScanExpected
    /\ Len(result.paths) = Cardinality(ScanExpected)
    /\ tree = prevTree

\* a scan returned two files and left out a file with content
C10_Witness ==
  /\ migration = "analyzeFilesForMigration"
  /\ pc = "returned"
  /\ Len(result.paths) = 2
  /\ \E p \in TextPaths :
       /\ tree[p] \notin {NoFile, <<>>}
       /\ \A i \in 1..Len(result.paths) : result.paths[i] # p

(***************************************************************************)
(* Properties of migrateToV18 and git                                      *)
(***************************************************************************)
Executed(cmds) == \E i \in 1..Len(git.log) : git.log[i] \in cmds

\* C11: in migrateToV18, with skipGitCheck neither git status nor git stash
\* is executed, with skipCommit neither git add nor git commit is executed,
\* and with both options no git command is executed at all.
C11_SkipOptions ==
  migration = "migrateToV18" =>
    /\ options.skipGitCheck =>
          ~Executed({"git status --porcelain", "git stash"})
    /\ options.skipCommit => ~Executed({"git add .", "git commit"})
    /\ (options.skipGitCheck /\ options.skipCommit) => git.log = <<>>

\* migrateToV18 ran to its end with both options set, in a working directory
\* with uncommitted changes, and changed the tree
C11_Witness ==
  /\ migration = "migrateToV18"
  /\ pc = "done"
  /\ options.skipGitCheck /\ options.skipCommit
  /\ git.foreign = "tracked"
  /\ tree # prevTree
  /\ git.log = <<>>

\* C12: with skipGitCheck and skipCommit, on a tree without package.json,
\* angular.json and source files, migrateToV18 raises no error, returns a
\* tree that is still empty, and comes to its end.
C12_EmptyTree ==
  LET emptyRun == /\ migration = "migrateToV18"
                  /\ prevTree = EmptyTree
                  /\ options.skipGitCheck /\ options.skipCommit
  IN /\ [](emptyRun => (pc # "error" /\ tree = EmptyTree))
     /\ (emptyRun ~> (pc = "done"))

\* the run on the empty tree with both options is over
C12_Witness ==
  /\ migration = "migrateToV18"
  /\ prevTree = EmptyTree
  /\ options.skipGitCheck /\ options.skipCommit
  /\ pc = "done"
  /\ lastRule = "updateDirectives"
  /\ tree = EmptyTree

\* a rule of the chain is about to run or has run
RulesApplied ==
  lastRule # "none" \/ \E k \in 1..Len(ChainOrder) : pc = ChainOrder[k]

\* the run ended at the git check: git stash was executed and failed
StashFailed == Executed({"git stash"}) /\ "stash" \in git.fails

\* no rule applied, the tree as it was, no commit attempted
Aborted ==
  /\ ~RulesApplied
  /\ tree = prevTree
  /\ ~Executed({"git add .", "git commit"})

\* C13: unless skipGitCheck is set, migrateToV18 applies its rules only when
\* the working directory was clean at the start or its changes were stashed
\* (no change from before the run is left in the working directory or went
\* into a commit of the run); when git stash fails the run aborts: no rule
\* is applied, the tree is unmodified and no commit is attempted.
C13_GitCheck ==
  (migration = "migrateToV18" /\ ~options.skipGitCheck) =>
    /\ RulesApplied =>
          /\ git.foreign = "none"
          /\ \A i \in 1..Len(git.commits) : ~git.commits[i].foreign
    /\ StashFailed => Aborted

\* C14: in migrateToV18 without skipCommit, git add and git commit are
\* executed only after the eight rules of the chain were applied and their
\* changes written to the working directory, and a commit created by a run
\* that changed files contains the changes of the migration.
C14_CommitAfterRules ==
  (migration = "migrateToV18" /\ ~options.skipCommit) =>
    /\ Executed({"git add .", "git commit"}) =>
          (pc = "done" /\ lastRule = ChainOrder[Len(ChainOrder)])
    /\ \A i \in 1..Len(git.commits) :
          (tree # prevTree) => git.commits[i].migrated

\* the operator answered the prompt of the component migration that runs
\* with something else than the approval
Declined ==
  \/ migration \in {"calendar", "sidebarDialog"} /\ ~answers.migrate
  \/ /\ migration \in SchemaMigrations
     /\ ~options.partOfParentMigration
     /\ ~answers.migrate
  \/ migration = "dialog" /\ answers.confirmation # "run"

\* the function on top of the script's stack stands at a find_and_replace
AtFindAndReplace ==
  bash.status = "running" /\ bash.stack # <<>>
    /\ Top.at \in 1..Len(Calls(Top.fn))

\* C15: a migration step the operator does not approve changes nothing.  A
\* component migration whose prompt was answered with anything but the
\* approval (false, or a string other than 'run') never changes a file of
\* the tree or of the working directory and executes no git command; a call
\* of find_and_replace that gets no y/Y leaves every file and the
\* repository as they were.
C15_DeclinedChangesNothing ==
  /\ [](Declined => (tree = prevTree /\ disk = prevTree /\ git.log = <<>>))
  /\ [][(AtFindAndReplace /\ ~Yes(bash'.last.reply))
          => (disk' = disk /\ git' = git)]_vars

\* find_and_replace found a file with the pattern, asked, and got n
C15_Witness ==
  /\ bash.last.prompted
  /\ bash.last.reply = "n"
  /\ GrepFiles(disk, Calls(bash.last.fn)[bash.last.at]) # {}
  /\ disk = prevTree

\* C16: a migration that takes the options of Schema and runs with
\* partOfParentMigration, whatever skipGitCheck and skipCommit are, executes
\* no git command, never comes to its commit prompt or to the timer of the
\* commit, and applies its steps to the tree whatever the operator would
\* answer to its prompts.
C16_PartOfParentMigration ==
  (migration \in SchemaMigrations /\ options.partOfParentMigration) =>
    /\ git.log = <<>>
    /\ git.commits = <<>>
    /\ pc # "commitRule"
    /\ ~timer
    /\ (pc \in {"write", "done"} =>
          /\ lastRule = migration
          /\ tree = updateFiles(migration, prevTree))

\* a migration that is part of a parent migration has changed a file in a
\* clean repository; the operator would have declined the migration and
\* approved the commit, and neither option forbids the check or the commit
C16_Witness ==
  /\ migration \in SchemaMigrations
  /\ options =
       [NoOptions EXCEPT !.partOfParentMigration = TRUE]
  /\ ~answers.migrate
  /\ answers.commit
  /\ git.fails = {}
  /\ pc = "done"
  /\ disk # prevTree

\* package.json or angular.json is in the tree and is not JSON
UnparsableJson ==
  tree[packageJsonPath] = BadJson \/ tree[angularJsonPath] = BadJson

\* C17: in migrateToV18 a package.json or an angular.json that cannot be
\* parsed does not end the run: no rule ends with an exception, and the
\* run goes on to the rules behind the one that reads the file.
C17_ParseFailureSkipped ==
  (migration = "migrateToV18" /\ UnparsableJson) => pc # "error"

\* C18: the six text rules of the chain are independent: when each of them
\* was applied once to a tree, in whatever order, the files are those the
\* order of the chain gives.
C18_OrderIndependent ==
  applied = {TextRuleOrder[k] : k \in 1..Len(TextRuleOrder)} =>
    tree = ChainOfTextRules(1, prevTree)


\* the places of a file where a mapped class is the front part of a longer
\* hyphenated identifier, as p-link is of p-link-active
HyphenatedUses(content) ==
  IF content = NoFile THEN {}
  ELSE {i \in 1..Len(content) :
          \E k \in 1..Len(cssClassMappings) :
            LitAt(content, i, cssClassMappings[k].old \o <<"-active">>)}

\* C19: updateCssClasses replaces whole class names only: a longer
\* hyphenated identifier that contains a mapped class as a hyphen-delimited
\* part (p-link-active) is left as it was.
C19_WholeClassNamesOnly ==
  (pc = "applied" /\ lastRule = "updateCssClasses") =>
    \A p \in TextPaths :
      Cardinality(HyphenatedUses(tree[p]))
        = Cardinality(HyphenatedUses(prevTree[p]))


\* C20: once the operator chose option 11 and confirmed with y, the ten
\* steps run one after the other with no further menu selection, and the
\* script ends with status 0: from the confirmation on the script never
\* stands at a call of show_menu, where it would wait for a selection
\* before the steps are through.
C20_RunAllWithoutMenu ==
  bash.all >= 0 => ~(Running /\ AtShowMenu(Top))


\* C21: a component migration invokes its git commit only if the operator
\* confirmed the migration, the working tree had no uncommitted changes
\* when the migration started and the operator confirmed the commit prompt;
\* so no commit of a migration contains changes that were in the working
\* tree before the migration ran, whatever the options are and also when
\* git status fails.
C21_CommitOnlyWhenClean ==
  migration \in ComponentMigrations =>
    /\ \A k \in 1..Len(git.commits) : ~git.commits[k].foreign
    /\ (\E k \in 1..Len(git.log) : git.log[k] = "git add --all") =>
          /\ answers.migrate
          /\ answers.commit
          /\ (git.commits = <<>> => git.foreign = "none")


\* C22: the commit of a component migration runs only after the engine has
\* written the migration's changes from the Tree to the working directory,
\* in every interleaving of the timer with the write-back; so a commit
\* includes the migration's changes whenever the migration changed a file.
C22_CommitAfterWriteBack ==
  migration \in ComponentMigrations =>
    /\ (\E k \in 1..Len(git.log) : git.log[k] = "git add --all") =>
          (pc = "done" /\ disk = tree)
    /\ (pc = "done" /\ disk # prevTree) =>
          \A k \in 1..Len(git.commits) : git.commits[k].migrated


\* C23: every call of find_and_replace scans, asks, applies and commits in
\* that order: it prompts only if a file matched; sed runs only after the
\* operator answered y or Y and only on the files that matched; the commit
\* follows the replacements; and when no file matches there is no prompt,
\* no file change and no commit.
C23_ScanApproveApplyCommit ==
  [][AtFindAndReplace =>
       LET call == Calls(Top.fn)[Top.at]
           files == GrepFiles(disk, call)
       IN /\ bash'.last.prompted => files # {}
          /\ disk' # disk =>
                (Yes(bash'.last.reply) /\ disk' = SedFiles(disk, call, files))
          /\ git' # git => (bash'.last.prompted /\ Yes(bash'.last.reply))
          /\ files = {} =>
                (~bash'.last.prompted /\ disk' = disk /\ git' = git)]_vars


\* a styles entry that is a string, and an entry whose text contains
\* primeng/resources
IsStringStyle(style) == style # ObjectStyle
ContainsPrimengResources(style) ==
  style \in PrimeNgStyles \/ style = ObjectStyle
StaysInStyles(style) ==
  ~(IsStringStyle(style) /\ ContainsPrimengResources(style))

C25_OnlyMessageRenamed ==
  (pc = "applied" /\ lastRule = "updateMessageInterface") =>
    LET old == prevTree[TsPath]
        new == tree[TsPath]
    IN /\ Len(new) = Len(old)
       /\ \A k \in 1..Len(old) :
            /\ old[k] = "MessageService" => new[k] = "MessageService"
            /\ new[k] # "ToastMessageOptionsService"


\* `import { .. Message .. } from 'primeng/api'` or "primeng/api": the file
\* imports the name Message from primeng/api
ImportsMessageFromApi(s) ==
  \E i \in 1..Len(s) :
    /\ s[i] = "import { "
    /\ \E j \in (i + 1)..(Len(s) - 1) :
         /\ s[j] \in {" } from ", " }  from  "}
         /\ s[j + 1] \in {"'primeng/api'", "\"primeng/api\""}
         /\ \A k \in (i + 1)..(j - 1) :
              s[k] \notin {" } from ", " }  from  "}
         /\ \E k \in (i + 1)..(j - 1) : s[k] = "Message"

\* C26: updateModuleImports of migrateToV18 leaves every occurrence of the
\* identifier Message as it was in each .ts file that does not import the
\* name Message from primeng/api, files that import only MessageService
\* from primeng/api included.
C26_RenameOnlyWithImport ==
  (pc = "applied" /\ lastRule = "updateModuleImports") =>
    \A p \in {TsPath} :
      (prevTree[p] # NoFile /\ ~ImportsMessageFromApi(prevTree[p])) =>
        /\ Len(tree[p]) = Len(prevTree[p])
        /\ \A k \in 1..Len(prevTree[p]) :
             prevTree[p][k] = "Message" => tree[p][k] = "Message"

\* the rule ran on a file that imports only MessageService from primeng/api
\* and uses the identifier Message
C26_Witness ==
  /\ pc = "applied"
  /\ lastRule = "updateModuleImports"
  /\ prevTree[TsPath] =
       <<"import { ", "MessageService", " } from ", "'primeng/api'", ";",
         "<", "Message", ">">>
  /\ tree[TsPath] = prevTree[TsPath]


\* a template without its size and [size] attributes, each taken out with
\* its white space, its value and the quote that closes the value
RECURSIVE WithoutSizeAttributes(_)
WithoutSizeAttributes(s) ==
  IF s = <<>> THEN <<>>
  ELSE IF Len(s) >= 4 /\ s[1] = " " /\ s[2] \in {"[size]=\"", "size=\""}
          /\ s[4] = "\""
       THEN WithoutSizeAttributes(SubSeq(s, 5, Len(s)))
       ELSE <<s[1]>> \o WithoutSizeAttributes(Tail(s))

\* C27: after removeDeprecatedSizeProperty a p-sidebar or p-drawer opening
\* tag is the tag it was without its size and [size] attributes (each gone
\* with its complete quoted value, the other attributes as they were), and
\* the tag of another element is as it was.
C27_SizeRemovedCleanly ==
  (pc = "applied" /\ lastRule = "removeDeprecatedSizeProperty"
     /\ prevTree[HtmlPath] \in SizeHtmlInputs) =>
    LET old == prevTree[HtmlPath]
        new == SelectSeq(tree[HtmlPath], LAMBDA c : c # NoteSize)
    IN IF old[1] = "<div" THEN tree[HtmlPath] = old
       ELSE new = WithoutSizeAttributes(old)


Count(s, c) == Cardinality({k \in 1..Len(s) : s[k] = c})

\* C28: after updateComponentSelectors of migrateChipsToAutoComplete every
\* (onAdd)= binding of a p-chips tag is an (onSelect)= binding and every
\* (onRemove)= binding is an (onUnselect)= binding, whatever other
\* attributes the tag has.
C28_EventsMapped ==
  (pc = "applied" /\ lastRule = "chipsUpdateComponentSelectors"
     /\ prevTree[HtmlPath] \in ChipsHtmlInputs) =>
    LET old == prevTree[HtmlPath]
        new == tree[HtmlPath]
    IN /\ Count(new, "(onAdd)=\"") = 0
       /\ Count(new, "(onRemove)=\"") = 0
       /\ Count(new, "(onSelect)=\"") = Count(old, "(onAdd)=\"")
       /\ Count(new, "(onUnselect)=\"") = Count(old, "(onRemove)=\"")

\* the chunks that open a tag, the chunks that are a comment
TagOpenChunks ==
  {"<p-chips", "<p-autoComplete", "<p-sidebar", "<p-dialog", "<p-drawer",
   "<div"}
CommentChunks ==
  {NoteChips, NoteDialog, NoteSize}
    \cup {chipsProperties[k].note : k \in 1..Len(chipsProperties)}
    \cup {sidebarDialogProperties[k].note :
            k \in 1..Len(sidebarDialogProperties)}
\* chunk k lies between the < of an opening tag and the > that closes it
InsideTag(s, k) ==
  \E i \in 1..(k - 1) :
    /\ s[i] \in TagOpenChunks
    /\ \A m \in (i + 1)..(k - 1) : s[m] \notin GtEndChunks

\* C29: no note that migrateChipsToAutoComplete or migrateSidebarToDialog
\* writes into a template lies inside an opening tag.
C29_NotesOutsideTags ==
  (pc = "applied"
     /\ lastRule \in {"chipsUpdateComponentSelectors",
                      "sidebarDialogUpdateComponentProperties"}
     /\ prevTree[HtmlPath] \in ChipsHtmlInputs \cup SidebarHtmlInputs) =>
    \A k \in 1..Len(tree[HtmlPath]) :
      tree[HtmlPath][k] \in CommentChunks => ~InsideTag(tree[HtmlPath], k)


NewOpenChunks ==
  {OpenChunk(selectorMappings[k].new) : k \in 1..Len(selectorMappings)}
\* the self-closing tags of s whose name is one of opens: the name is
\* followed by '/>' at once, or by white space and attribute text that ends
\* with '/>'
SelfClosingTags(s, opens) ==
  {i \in 1..Len(s) :
     /\ s[i] \in opens
     /\ \E j \in (i + 2)..Len(s) :
          /\ s[j] = ">"
          /\ s[j - 1] = "/"
          /\ j = i + 2 \/ SpaceStart(s[i + 1])
          /\ \A m \in (i + 1)..(j - 1) : ~GtEnd(s[m])}

\* C30: updateComponentSelectors of migrateToV18 keeps the form of the tags
\* it renames: the template has as many self-closing tags of the new
\* selectors after the rule as it had of the old selectors before it,
\* <p-dropdown/> and <p-dropdown /> included.
C30_SelfClosingPreserved ==
  (pc = "applied" /\ lastRule = "updateComponentSelectors"
     /\ prevTree[HtmlPath] # NoFile
     /\ SelfClosingTags(prevTree[HtmlPath], NewOpenChunks) = {}) =>
    Cardinality(SelfClosingTags(tree[HtmlPath], NewOpenChunks))
      = Cardinality(SelfClosingTags(prevTree[HtmlPath], OldOpenChunks))

=============================================================================
